---- MODULE Spec2Model ----
(***************************************************************************)
(* A model of the subtitle analyzer (src/src/analyzer.py), and of the      *)
(* server's call_tool (src/src/server.py) with the extractor it calls      *)
(* (src/src/subtitle_extractor.py).                                        *)
(*                                                                         *)
(* Text is modelled character by character: a string is a sequence of      *)
(* one-character strings, and a subtitle file is the sequence of its lines *)
(* (the file's text is those lines joined by "\n", so content.split("\n")  *)
(* is the sequence itself).  Regular expressions of the source are written *)
(* out as the scans they perform.                                          *)
(*                                                                         *)
(* Python ints are integers.  A Python float is modelled as the number the *)
(* double is, written in binary, and the arithmetic on floats as the exact *)
(* operation followed by the rounding to the nearest double; the whole     *)
(* part of a float of the model is below 2^31.                             *)
(*                                                                         *)
(* The analyzer keeps no state between calls: one behaviour of Spec and of *)
(* ParseSpec is one call of one public operation on one input.  One        *)
(* behaviour of ServerSpec is one call of call_tool, a step for each await *)
(* of the call (the start of a process and the end of it are two); what    *)
(* the platforms answer is chosen at the step.  Other calls of call_tool   *)
(* may run between two steps; the calls share no state, so a call sees     *)
(* nothing of them.                                                        *)
(***************************************************************************)
EXTENDS Integers, Sequences, FiniteSets, TLC

VARIABLES
    content,    \* the subtitle file handed to the operation, as its lines
    pc,         \* "ready" before the call, "done" after it
    op,         \* the operation called: "parse", "search", "segments", "chapters"
    args,       \* the other arguments of the call
    entries,    \* the local `entries` of the operation: self.parse(content)
    result,     \* what the call produced: [kind |-> "ok", value |-> v] or
                \* [kind |-> "raise", exc |-> the exception's class]
    calls,      \* the collaborators call_tool has invoked so far, in order,
                \* each with what it returned or raised
    extracted   \* what extractor.extract returned or raised, once it has

vars == <<content, pc, op, args, entries, result, calls, extracted>>

----------------------------------------------------------------------------
(* Characters and strings                                                  *)

Digits == <<"0", "1", "2", "3", "4", "5", "6", "7", "8", "9">>

DigitValues == [c \in {Digits[d] : d \in 1..10} |-> (CHOOSE d \in 1..10 : Digits[d] = c) - 1]

IsDigit(c) == c \in DOMAIN DigitValues

DigitVal(c) == DigitValues[c]

\* The texts are strings of the characters U+0001..U+00FF.

\* The whitespace of C's isspace(): the space, tab, line feed, vertical tab,
\* form feed and carriage return.
CWhitespace == {" ", "\t", "\n", "", "\f", "\r"}

\* The whitespace beyond ASCII: the next line U+0085 and the no-break space
\* U+00A0.
WideWhitespace == {"", " "}

\* The whitespace int() skips around a literal: that of C and, each of them
\* read as a space, the whitespace beyond ASCII; the separators
\* U+001C..U+001F are not skipped.
IntWhitespace == CWhitespace \cup WideWhitespace

\* The whitespace str.strip() removes and \s matches (str.isspace): that of
\* C, the four separators U+001C..U+001F and the whitespace beyond ASCII.
Whitespace == CWhitespace \cup {"", "", "", ""} \cup WideWhitespace

IsSpace(c) == c \in Whitespace

UpperCase == <<"A", "B", "C", "D", "E", "F", "G", "H", "I", "J", "K", "L", "M",
               "N", "O", "P", "Q", "R", "S", "T", "U", "V", "W", "X", "Y", "Z">>

LowerCase == <<"a", "b", "c", "d", "e", "f", "g", "h", "i", "j", "k", "l", "m",
               "n", "o", "p", "q", "r", "s", "t", "u", "v", "w", "x", "y", "z">>

\* The letters of U+00C0..U+00FE that have their other case in that range
\* (U+00D7 and U+00F7 are no letters).
WideUpperCase == <<"À", "Á", "Â", "Ã", "Ä", "Å", "Æ", "Ç", "È", "É",
                   "Ê", "Ë", "Ì", "Í", "Î", "Ï", "Ð", "Ñ", "Ò", "Ó",
                   "Ô", "Õ", "Ö", "Ø", "Ù", "Ú", "Û", "Ü", "Ý", "Þ">>

WideLowerCase == <<"à", "á", "â", "ã", "ä", "å", "æ", "ç", "è", "é",
                   "ê", "ë", "ì", "í", "î", "ï", "ð", "ñ", "ò", "ó",
                   "ô", "õ", "ö", "ø", "ù", "ú", "û", "ü", "ý", "þ">>

\* The characters \w matches that are neither of these nor ASCII: two
\* ordinal indicators, the superscripts, the micro sign, the fractions, the
\* sharp s and the y with diaeresis (their other case, where there is one,
\* lies beyond U+00FF).
WideCaseless == {"ª", "²", "³", "µ", "¹", "º", "¼", "½", "¾", "ß", "ÿ"}

AllUpperCase == UpperCase \o WideUpperCase

AllLowerCase == LowerCase \o WideLowerCase

LowerOf == [c \in {AllUpperCase[k] : k \in 1..Len(AllUpperCase)} |->
                AllLowerCase[CHOOSE k \in 1..Len(AllUpperCase) : AllUpperCase[k] = c]]

\* re.IGNORECASE compares characters up to case.
Fold(c) == IF c \in DOMAIN LowerOf THEN LowerOf[c] ELSE c

\* The first position >= i of s that holds no whitespace (Len(s)+1 if none).
RECURSIVE SkipSpaces(_, _)
SkipSpaces(s, i) ==
    IF i <= Len(s) /\ IsSpace(s[i]) THEN SkipSpaces(s, i + 1) ELSE i

\* The last position <= i of s that holds no whitespace (0 if none).
RECURSIVE SkipSpacesBack(_, _)
SkipSpacesBack(s, i) ==
    IF i >= 1 /\ IsSpace(s[i]) THEN SkipSpacesBack(s, i - 1) ELSE i

\* str.lstrip(), str.rstrip(), str.strip() on one line.
LStrip(s) == SubSeq(s, SkipSpaces(s, 1), Len(s))

RStrip(s) == SubSeq(s, 1, SkipSpacesBack(s, Len(s)))

Strip(s) == RStrip(LStrip(s))

\* A line of whitespace only (or of nothing).
IsBlank(s) == SkipSpaces(s, 1) > Len(s)

\* sep.join(parts)
RECURSIVE Join(_, _)
Join(parts, sep) ==
    IF parts = <<>> THEN <<>>
    ELSE IF Len(parts) = 1 THEN parts[1]
    ELSE parts[1] \o sep \o Join(Tail(parts), sep)

\* s.startswith(prefix)
StartsWith(s, prefix) ==
    Len(s) >= Len(prefix) /\ SubSeq(s, 1, Len(prefix)) = prefix

\* The least element of a non-empty set of integers.
Min(S) == CHOOSE x \in S : \A y \in S : x <= y

\* The position of the first ">" of s at or after j (0 if none).
FindGt(s, j) ==
    LET G == {q \in j..Len(s) : s[q] = ">"}
    IN  IF G = {} THEN 0 ELSE Min(G)

\* re.sub(r"<[^>]+>", "", s): leftmost, non-overlapping; a "<" starts a tag
\* when the first ">" after it is at least two positions further.  Each step
\* copies the text up to the next tag and resumes after the tag's ">".
RECURSIVE StripTagsFrom(_, _)
StripTagsFrom(s, i) ==
    LET T == {p \in i..Len(s) : s[p] = "<" /\ FindGt(s, p + 1) >= p + 2}
    IN  IF T = {} THEN SubSeq(s, i, Len(s))
        ELSE SubSeq(s, i, Min(T) - 1)
             \o StripTagsFrom(s, FindGt(s, Min(T) + 1) + 1)

StripTags(s) == StripTagsFrom(s, 1)

\* The decimal digits of a natural number.
RECURSIVE NatDigits(_)
NatDigits(n) ==
    IF n < 10 THEN <<Digits[n + 1]>>
    ELSE NatDigits(n \div 10) \o <<Digits[(n % 10) + 1]>>

RECURSIVE ZeroPad(_, _)
ZeroPad(s, w) == IF Len(s) >= w THEN s ELSE ZeroPad(<<"0">> \o s, w)

\* Python's f"{n:0wd}": the sign counts in the width.
FormatInt(n, w) ==
    IF n >= 0 THEN ZeroPad(NatDigits(n), w)
    ELSE <<"-">> \o ZeroPad(NatDigits(-n), w - 1)

\* The number a run of decimal digits denotes.
RECURSIVE DigitsValue(_)
DigitsValue(s) ==
    IF s = <<>> THEN 0
    ELSE 10 * DigitsValue(SubSeq(s, 1, Len(s) - 1)) + DigitVal(s[Len(s)])

AllDigits(s) == s # <<>> /\ \A i \in 1..Len(s) : IsDigit(s[i])

\* The digits of a decimal literal of int(): groups of digits, with single
\* underscores between the groups, and no more than 4300 digits in all
\* (the limit int() sets on the digits of a string it converts,
\* sys.int_info.default_max_str_digits; beyond it int() raises ValueError).
UnderscoredDigits(s) ==
    /\ s # <<>>
    /\ IsDigit(s[1]) /\ IsDigit(s[Len(s)])
    /\ \A i \in 1..Len(s) : IsDigit(s[i]) \/ s[i] = "_"
    /\ \A i \in 1..(Len(s) - 1) : ~(s[i] = "_" /\ s[i + 1] = "_")
    /\ Len(SelectSeq(s, IsDigit)) <= 4300

\* The literal int() reads in a line: the line without the whitespace of C
\* at its ends.
IntLiteral(line) ==
    LET kept == {i \in 1..Len(line) : line[i] \notin IntWhitespace}
    IN  IF kept = {} THEN <<>>
        ELSE SubSeq(line, Min(kept), CHOOSE i \in kept : \A j \in kept : j <= i)

\* int(line) succeeds: whitespace around an optional sign and the digits.
IsPyInt(line) ==
    LET t == IntLiteral(line)
    IN  \/ UnderscoredDigits(t)
        \/ Len(t) >= 2 /\ t[1] \in {"-", "+"} /\ UnderscoredDigits(Tail(t))

\* int(line), where it succeeds: the underscores count for nothing.
PyInt(line) ==
    LET t == IntLiteral(line)
        digits == SelectSeq(IF t[1] \in {"-", "+"} THEN Tail(t) ELSE t, IsDigit)
    IN  IF t[1] = "-" THEN 0 - DigitsValue(digits) ELSE DigitsValue(digits)

----------------------------------------------------------------------------
(* Python floats                                                           *)

\* A Python float (an IEEE 754 double) as the number it is: its sign, its
\* whole part, and the binary digits of its fraction, without the zeros at
\* their end.  Zero has no sign here.
Float(neg, whole, frac) ==
    [neg |-> neg /\ (whole # 0 \/ frac # <<>>), whole |-> whole, frac |-> frac]

\* float(n) of an int n
FloatOfInt(n) == Float(n < 0, IF n < 0 THEN 0 - n ELSE n, <<>>)

\* The significant binary digits of a double.
Precision == 53

\* bits without the zeros at its end.
TrimZeros(bits) ==
    SubSeq(bits, 1, CHOOSE n \in 0..Len(bits) :
                        /\ n = 0 \/ bits[n] = 1
                        /\ \A i \in (n + 1)..Len(bits) : bits[i] = 0)

\* The number of binary digits of n >= 0.
RECURSIVE BitLength(_)
BitLength(n) == IF n = 0 THEN 0 ELSE 1 + BitLength(n \div 2)

\* The first position where bits holds a 1, Len(bits) + 1 if none.
LeadingOne(bits) ==
    CHOOSE n \in 1..(Len(bits) + 1) :
        /\ n = Len(bits) + 1 \/ bits[n] = 1
        /\ \A i \in 1..(n - 1) : bits[i] = 0

\* bits with zeros added at the end, up to n digits.
Pad(bits, n) == bits \o [i \in 1..(n - Len(bits)) |-> 0]

\* A number that is not negative, written in binary: its whole part and the
\* digits of its fraction.
Binary(whole, bits) == [whole |-> whole, bits |-> bits]

\* a + b + carry (0 or 1 at the last digit) of two such numbers: the carry
\* into a position comes from the nearest position after it that makes one,
\* through positions that pass it on.
BinaryAdd(x, y, carry) ==
    LET n == IF Len(x.bits) > Len(y.bits) THEN Len(x.bits) ELSE Len(y.bits)
        a == Pad(x.bits, n)
        b == Pad(y.bits, n)
        CarryInto(i) ==
            IF \/ \E j \in (i + 1)..n :
                     /\ a[j] + b[j] = 2
                     /\ \A k \in (i + 1)..(j - 1) : a[k] + b[k] = 1
               \/ carry = 1 /\ \A k \in (i + 1)..n : a[k] + b[k] = 1
            THEN 1 ELSE 0
    IN  Binary(x.whole + y.whole + CarryInto(0),
               [i \in 1..n |-> (a[i] + b[i] + CarryInto(i)) % 2])

\* a - b of two such numbers, a >= b.
BinarySub(x, y) ==
    LET n == IF Len(x.bits) > Len(y.bits) THEN Len(x.bits) ELSE Len(y.bits)
        a == Pad(x.bits, n)
        b == Pad(y.bits, n)
        BorrowInto(i) ==
            IF \E j \in (i + 1)..n :
                  /\ a[j] < b[j]
                  /\ \A k \in (i + 1)..(j - 1) : a[k] <= b[k]
            THEN 1 ELSE 0
    IN  Binary(x.whole - y.whole - BorrowInto(0),
               [i \in 1..n |-> (a[i] - b[i] - BorrowInto(i) + 2) % 2])

\* a < b
BinaryLess(x, y) ==
    LET n == IF Len(x.bits) > Len(y.bits) THEN Len(x.bits) ELSE Len(y.bits)
        a == Pad(x.bits, n)
        b == Pad(y.bits, n)
    IN  \/ x.whole < y.whole
        \/ /\ x.whole = y.whole
           /\ \E i \in 1..n : a[i] < b[i] /\ \A j \in 1..(i - 1) : a[j] = b[j]

\* 2 * a
BinaryDouble(x) ==
    IF x.bits = <<>> THEN Binary(2 * x.whole, <<>>)
    ELSE Binary(2 * x.whole + x.bits[1], Tail(x.bits))

\* n * a, for an int n >= 0: by the binary digits of n.
RECURSIVE BinaryTimes(_, _)
BinaryTimes(x, n) ==
    IF n = 0 THEN Binary(0, <<>>)
    ELSE IF n % 2 = 0 THEN BinaryDouble(BinaryTimes(x, n \div 2))
    ELSE BinaryAdd(BinaryDouble(BinaryTimes(x, n \div 2)), x, 0)

\* The binary digits of rem / d (rem < d) eight at a time, as numbers below
\* 256: at most count of them, until nothing remains to divide; then what
\* remains to divide.
RECURSIVE QuotientBytes(_, _, _)
QuotientBytes(rem, d, count) ==
    IF count = 0 \/ rem = 0 THEN <<rem>>
    ELSE <<(256 * rem) \div d>> \o QuotientBytes((256 * rem) % d, d, count - 1)

\* The binary digits of such numbers, eight of each.
BitsOfBytes(bytes) ==
    [i \in 1..(8 * Len(bytes)) |->
        (bytes[(i - 1) \div 8 + 1] \div <<128, 64, 32, 16, 8, 4, 2, 1>>[((i - 1) % 8) + 1]) % 2]

\* The double nearest to a number written in binary (with something smaller
\* than its last digit added to it when `more`), ties to even: 53
\* significant digits are kept.
RoundToDouble(neg, x, more) ==
    LET kept == IF x.whole > 0 THEN Precision - BitLength(x.whole)
                ELSE LeadingOne(x.bits) + Precision - 1
    IN  IF Len(x.bits) <= kept THEN Float(neg, x.whole, TrimZeros(x.bits))
        ELSE LET head == Binary(x.whole, SubSeq(x.bits, 1, kept))
                 rest == more \/ \E i \in (kept + 2)..Len(x.bits) : x.bits[i] = 1
                 odd == IF kept = 0 THEN x.whole % 2 = 1 ELSE x.bits[kept] = 1
                 up == x.bits[kept + 1] = 1 /\ (rest \/ odd)
                 rounded == IF up THEN BinaryAdd(head, Binary(0, <<>>), 1) ELSE head
             IN  Float(neg, rounded.whole, TrimZeros(rounded.bits))

\* n / d of two ints, d > 0: Python's true division, correctly rounded
\* (the digits of the quotient go further than the rounding looks).
TrueDivide(n, d) ==
    LET a == IF n < 0 THEN 0 - n ELSE n
        q == QuotientBytes(a % d, d, (Precision + BitLength(d) + 8) \div 8)
    IN  RoundToDouble(n < 0,
                      Binary(a \div d, BitsOfBytes(SubSeq(q, 1, Len(q) - 1))),
                      q[Len(q)] # 0)

\* |x|
Magnitude(x) == Binary(x.whole, x.frac)

\* x < y
FloatLess(x, y) ==
    IF x.neg /\ ~y.neg THEN TRUE
    ELSE IF ~x.neg /\ y.neg THEN FALSE
    ELSE IF x.neg THEN BinaryLess(Magnitude(y), Magnitude(x))
    ELSE BinaryLess(Magnitude(x), Magnitude(y))

\* -x
Negate(x) == Float(~x.neg, x.whole, x.frac)

\* x + y of two floats: the sum itself, rounded to a double.
FloatAdd(x, y) ==
    IF x.neg = y.neg
    THEN RoundToDouble(x.neg, BinaryAdd(Magnitude(x), Magnitude(y), 0), FALSE)
    ELSE IF BinaryLess(Magnitude(x), Magnitude(y))
    THEN RoundToDouble(y.neg, BinarySub(Magnitude(y), Magnitude(x)), FALSE)
    ELSE RoundToDouble(x.neg, BinarySub(Magnitude(x), Magnitude(y)), FALSE)

\* x - y
FloatSub(x, y) == FloatAdd(x, Negate(y))

\* x * n of a float and an int n > 0: the product itself, rounded.
FloatMul(x, n) == RoundToDouble(x.neg, BinaryTimes(Magnitude(x), n), FALSE)

\* x % n of a float and an int n > 0: fmod, which is exact, and n added to
\* it when it is negative (floatobject.c float_rem).
FloatMod(x, n) ==
    LET mod == Float(x.neg, x.whole % n, x.frac)
    IN  IF mod.neg THEN FloatAdd(mod, FloatOfInt(n)) ELSE mod

\* int(x // n) of a float and an int n > 0 (floatobject.c float_floor_div):
\* (x - fmod(x, n)) / n is a whole number, one less when fmod is negative.
FloatFloorDiv(x, n) ==
    IF ~x.neg THEN x.whole \div n
    ELSE IF x.whole % n = 0 /\ x.frac = <<>> THEN 0 - (x.whole \div n)
    ELSE 0 - (x.whole \div n) - 1

\* int(x)
Trunc(x) == IF x.neg THEN 0 - x.whole ELSE x.whole

\* |x| * 10 rounded to the nearest whole number, ties to even: the tenths
\* f"{x:.1f}" prints.
Tenths(x) ==
    LET m == BinaryTimes(Magnitude(x), 10)
        f == TrimZeros(m.bits)
        up == f # <<>> /\ f[1] = 1 /\ (Len(f) > 1 \/ m.whole % 2 = 1)
    IN  IF up THEN m.whole + 1 ELSE m.whole

\* n / 1000: n milliseconds as the float of the seconds.
Milliseconds(n) == TrueDivide(n, 1000)

----------------------------------------------------------------------------
(* TimeCode                                                                *)

\* \d{2}:\d{2}:\d{2}[seps]\d{3} at position p of s.
IsTimecodeAt(s, p, seps) ==
    /\ p + 11 <= Len(s)
    /\ IsDigit(s[p]) /\ IsDigit(s[p + 1]) /\ s[p + 2] = ":"
    /\ IsDigit(s[p + 3]) /\ IsDigit(s[p + 4]) /\ s[p + 5] = ":"
    /\ IsDigit(s[p + 6]) /\ IsDigit(s[p + 7]) /\ s[p + 8] \in seps
    /\ IsDigit(s[p + 9]) /\ IsDigit(s[p + 10]) /\ IsDigit(s[p + 11])

\* "-->" at position p of s.
IsArrowAt(s, p) ==
    p + 2 <= Len(s) /\ s[p] = "-" /\ s[p + 1] = "-" /\ s[p + 2] = ">"

\* re.match(r"(TC)\s*-->\s*(TC)", s) with TC = \d{2}:\d{2}:\d{2}[seps]\d{3}:
\* anchored at the start of s, anything may follow the second timecode.
TimeLineMatch(s, seps) ==
    /\ IsTimecodeAt(s, 1, seps)
    /\ IsArrowAt(s, SkipSpaces(s, 13))
    /\ IsTimecodeAt(s, SkipSpaces(s, SkipSpaces(s, 13) + 3), seps)

\* group(1) and group(2) of that match.
TimeLineStart(s) == SubSeq(s, 1, 12)

TimeLineEnd(s) ==
    LET b == SkipSpaces(s, SkipSpaces(s, 13) + 3) IN SubSeq(s, b, b + 11)

\* re.match(r"\d{2}:\d{2}:\d{2}\.\d{3}\s*-->", s)
TimeLinePrefixMatch(s) ==
    IsTimecodeAt(s, 1, {"."}) /\ IsArrowAt(s, SkipSpaces(s, 13))

\* str.replace(",", ".")
CommaToPeriod(s) == [i \in 1..Len(s) |-> IF s[i] = "," THEN "." ELSE s[i]]

\* analyzer.py _time_to_seconds: the int of the hours, minutes and seconds
\* plus the float int(ms) / 1000; 0.0 when the text does not start with a
\* timecode.
_time_to_seconds(time_str) ==
    IF ~IsTimecodeAt(time_str, 1, {",", "."}) THEN FloatOfInt(0)
    ELSE FloatAdd(FloatOfInt(DigitsValue(SubSeq(time_str, 1, 2)) * 3600
                             + DigitsValue(SubSeq(time_str, 4, 5)) * 60
                             + DigitsValue(SubSeq(time_str, 7, 8))),
                  TrueDivide(DigitsValue(SubSeq(time_str, 10, 12)), 1000))

\* The fields both formatters compute from the float seconds and print:
\* int(seconds // 3600), int((seconds % 3600) // 60), int(seconds % 60),
\* int((seconds % 1) * 1000).
TimeFields(seconds, sep) ==
    FormatInt(FloatFloorDiv(seconds, 3600), 2) \o <<":">>
    \o FormatInt(FloatFloorDiv(FloatMod(seconds, 3600), 60), 2) \o <<":">>
    \o FormatInt(Trunc(FloatMod(seconds, 60)), 2) \o <<sep>>
    \o FormatInt(Trunc(FloatMul(FloatMod(seconds, 1), 1000)), 3)

\* analyzer.py _seconds_to_time, of a float; of an int n it prints what it
\* prints of float(n).
_seconds_to_time(seconds) == TimeFields(seconds, ".")

\* subtitle_extractor.py _seconds_to_srt_time
_seconds_to_srt_time(seconds) == TimeFields(seconds, ",")

----------------------------------------------------------------------------
(* FormatDetector and the parsers                                          *)

\* A SubtitleEntry (start_seconds is a float).
SubtitleEntry(index, start_time, end_time, text) ==
    [index |-> index, start_time |-> start_time, end_time |-> end_time,
     text |-> text, start_seconds |-> _time_to_seconds(start_time)]

\* The lines of content.strip(): the blank lines at both ends go, and the
\* whitespace before the first and after the last character.
RECURSIVE FirstNonBlank(_, _)
FirstNonBlank(lines, i) ==
    IF i <= Len(lines) /\ IsBlank(lines[i]) THEN FirstNonBlank(lines, i + 1) ELSE i

RECURSIVE LastNonBlank(_, _)
LastNonBlank(lines, i) ==
    IF i >= 1 /\ IsBlank(lines[i]) THEN LastNonBlank(lines, i - 1) ELSE i

StripLines(lines) ==
    LET a == FirstNonBlank(lines, 1)
        b == LastNonBlank(lines, Len(lines))
        kept == SubSeq(lines, a, b)
    IN  [k \in 1..Len(kept) |->
            IF k = 1 /\ k = Len(kept) THEN Strip(kept[k])
            ELSE IF k = 1 THEN LStrip(kept[k])
            ELSE IF k = Len(kept) THEN RStrip(kept[k])
            ELSE kept[k]]

\* The token a VTT file starts with.
Line_WEBVTT == <<"W", "E", "B", "V", "T", "T">>

\* analyzer.py _detect_format: content.strip().startswith("WEBVTT")
_detect_format(c) ==
    LET t == StripLines(c)
    IN  IF t # <<>> /\ StartsWith(t[1], Line_WEBVTT)
        THEN "vtt" ELSE "srt"

\* re.split(r"\n\s*\n", text) on the lines of a stripped text: a separator is
\* a newline, a run of whitespace-only lines and their newlines; so the
\* blocks are the maximal runs of lines that are not blank.  (Of a text that
\* is empty the source makes one empty block, which its loop skips as having
\* fewer than 2 lines; here it has no block.)
RECURSIVE SplitBlocksFrom(_, _, _)
SplitBlocksFrom(lines, i, cur) ==
    IF i > Len(lines) THEN (IF cur = <<>> THEN <<>> ELSE <<cur>>)
    ELSE IF IsBlank(lines[i])
         THEN (IF cur = <<>> THEN <<>> ELSE <<cur>>)
              \o SplitBlocksFrom(lines, i + 1, <<>>)
         ELSE SplitBlocksFrom(lines, i + 1, Append(cur, lines[i]))

SplitBlocks(c) == SplitBlocksFrom(StripLines(c), 1, <<>>)

\* One pass of the body of parse_srt's loop: the entries after `block`.
srt_block(block, acc) ==
    LET lines == StripLines(block)
        numbered == IsPyInt(lines[1])
        time_line_idx == IF numbered THEN 1 ELSE 0
        index == IF numbered THEN PyInt(lines[1]) ELSE Len(acc) + 1
        time_line == lines[time_line_idx + 1]
        text == StripTags(Join(SubSeq(lines, time_line_idx + 2, Len(lines)), <<" ">>))
    IN  IF Len(lines) < 2 THEN acc
        ELSE IF time_line_idx >= Len(lines) THEN acc
        ELSE IF ~TimeLineMatch(time_line, {",", "."}) THEN acc
        ELSE IF IsBlank(text) THEN acc
        ELSE Append(acc, SubtitleEntry(index,
                                       CommaToPeriod(TimeLineStart(time_line)),
                                       CommaToPeriod(TimeLineEnd(time_line)),
                                       text))

RECURSIVE srt_loop(_, _, _)
srt_loop(blocks, k, acc) ==
    IF k > Len(blocks) THEN acc
    ELSE srt_loop(blocks, k + 1, srt_block(blocks[k], acc))

\* parse_srt with `break` where the source has `continue`: the loop ends at
\* the first block that yields no entry.
RECURSIVE srt_loop_until_dropped(_, _, _)
srt_loop_until_dropped(blocks, k, acc) ==
    IF k > Len(blocks) \/ srt_block(blocks[k], acc) = acc THEN acc
    ELSE srt_loop_until_dropped(blocks, k + 1, srt_block(blocks[k], acc))

parse_srt_until_dropped(srt_content) ==
    srt_loop_until_dropped(SplitBlocks(srt_content), 1, <<>>)

\* analyzer.py parse_srt
parse_srt(srt_content) == srt_loop(SplitBlocks(srt_content), 1, <<>>)

\* parse_vtt's first loop: the first line, as it stands, that starts with a
\* timecode and an arrow.
RECURSIVE vtt_skip_header(_, _)
vtt_skip_header(lines, i) ==
    IF i <= Len(lines) /\ ~TimeLinePrefixMatch(lines[i])
    THEN vtt_skip_header(lines, i + 1) ELSE i

\* parse_vtt's inner loop: where the text of a cue stops.
RECURSIVE vtt_cue_end(_, _)
vtt_cue_end(lines, i) ==
    IF i > Len(lines) THEN i
    ELSE IF IsBlank(lines[i]) \/ TimeLinePrefixMatch(Strip(lines[i])) THEN i
    ELSE vtt_cue_end(lines, i + 1)

\* The text lines the inner loop keeps of lines a..b.
RECURSIVE vtt_text_lines(_, _, _)
vtt_text_lines(lines, a, b) ==
    IF a > b THEN <<>>
    ELSE LET clean_line == StripTags(Strip(lines[a]))
         IN  (IF clean_line # <<>> THEN <<clean_line>> ELSE <<>>)
             \o vtt_text_lines(lines, a + 1, b)

RECURSIVE vtt_loop(_, _, _, _)
vtt_loop(lines, i, index, acc) ==
    IF i > Len(lines) THEN acc
    ELSE LET line == Strip(lines[i])
         IN  IF TimeLineMatch(line, {"."})
             THEN LET j == vtt_cue_end(lines, i + 1)
                      text_lines == vtt_text_lines(lines, i + 1, j - 1)
                  IN  IF text_lines # <<>>
                      THEN vtt_loop(lines, j, index + 1,
                                    Append(acc, SubtitleEntry(index,
                                                    TimeLineStart(line),
                                                    TimeLineEnd(line),
                                                    Join(text_lines, <<" ">>))))
                      ELSE vtt_loop(lines, j, index, acc)
             ELSE vtt_loop(lines, i + 1, index, acc)

\* analyzer.py parse_vtt
parse_vtt(vtt_content) ==
    vtt_loop(vtt_content, vtt_skip_header(vtt_content, 1), 1, <<>>)

\* analyzer.py parse
parse(c) == IF _detect_format(c) = "vtt" THEN parse_vtt(c) ELSE parse_srt(c)

----------------------------------------------------------------------------
(* SubtitleAnalyzer: keyword search                                        *)

Max(a, b) == IF a >= b THEN a ELSE b

Minimum(a, b) == IF a <= b THEN a ELSE b

\* What search_keywords returns when nothing parses.  (In the source the
\* string is a Chinese sentence, "cannot parse the subtitle content".)
Sentinel == "cannot parse the subtitle content"

\* The search without re.IGNORECASE.
pattern_search_case_sensitive(keyword, text) ==
    \E p \in 1..(Len(text) - Len(keyword) + 1) :
        \A k \in 1..Len(keyword) : text[p + k - 1] = keyword[k]

\* re.compile(re.escape(keyword), re.IGNORECASE).search(text): the keyword's
\* characters, each taken literally and up to case, somewhere in the text.
pattern_search(keyword, text) ==
    \E p \in 1..(Len(text) - Len(keyword) + 1) :
        \A k \in 1..Len(keyword) : Fold(text[p + k - 1]) = Fold(keyword[k])

\* "\n".join(parts) as the lines of the joined text (no part holds a newline;
\* the join of no parts is the empty text, one empty line).
JoinLines(parts) == IF parts = <<>> THEN << <<>> >> ELSE parts

\* f"{seconds:.1f}" of a float: the number the double is, rounded to
\* tenths, ties to the even tenth.
FormatSeconds(seconds) ==
    (IF seconds.neg THEN <<"-">> ELSE <<>>)
    \o NatDigits(Tenths(seconds) \div 10) \o <<".">> \o NatDigits(Tenths(seconds) % 10)

\* One rendered line of a context block:
\* f"{marker} [{entries[j].start_time}] {entries[j].text}"
context_line(e, j, i) ==
    (IF j = i THEN <<">", ">", ">">> ELSE <<" ", " ", " ">>)
    \o <<" ", "[">> \o e[j + 1].start_time \o <<"]", " ">> \o e[j + 1].text

\* The first bound of the window of the hit at position i (from 0).
start_idx(i, context_lines) == Max(0, i - context_lines)

\* The bound after its last position, with the "+ 1" forgotten.
end_idx_exclusive_of_reach(n, i, context_lines) == Minimum(n, i + context_lines)

\* The bound after its last position.
end_idx(n, i, context_lines) == Minimum(n, i + context_lines + 1)

\* The dict search_keywords appends for the hit at position i (from 0).  The
\* locals i, start_idx and end_idx the context was rendered from are kept
\* beside it.
keyword_match(e, i, context_lines) ==
    LET lo == start_idx(i, context_lines)
        hi == end_idx(Len(e), i, context_lines)
    IN  [timestamp |-> e[i + 1].start_time,
         seconds |-> e[i + 1].start_seconds,
         text |-> e[i + 1].text,
         context |-> JoinLines([k \in 1..(hi - lo) |-> context_line(e, lo + k - 1, i)]),
         i |-> i, start_idx |-> lo, end_idx |-> hi]

\* The inner loop of search_keywords: the hits of one keyword from position
\* i (from 0) on, in entry order.
RECURSIVE keyword_results(_, _, _, _)
keyword_results(e, keyword, context_lines, i) ==
    IF i >= Len(e) THEN <<>>
    ELSE (IF pattern_search(keyword, e[i + 1].text)
          THEN <<keyword_match(e, i, context_lines)>> ELSE <<>>)
         \o keyword_results(e, keyword, context_lines, i + 1)

\* The outer loop of search_keywords: one result per keyword, in order.
search_results(e, keywords, context_lines) ==
    [k \in 1..Len(keywords) |->
        LET matches == keyword_results(e, keywords[k], context_lines, 0)
        IN  [keyword |-> keywords[k], matches |-> matches, count |-> Len(matches)]]

\* The strings _format_search_results appends for one hit, numbered n.
format_match(n, match) ==
    << [line |-> "hit", n |-> n, timestamp |-> match.timestamp,
        seconds |-> FormatSeconds(match.seconds)],
       [line |-> "matched_text", text |-> match.text],
       [line |-> "context_header"] >>
    \o [k \in 1..Len(match.context) |-> [line |-> "context", text |-> match.context[k]]]

RECURSIVE format_matches(_, _)
format_matches(matches, n) ==
    IF n > Len(matches) THEN <<>>
    ELSE format_match(n, matches[n]) \o format_matches(matches, n + 1)

\* The strings it appends for one keyword's result.
format_result(r) ==
    << [line |-> "keyword", keyword |-> r.keyword, count |-> r.count],
       [line |-> "rule"] >>
    \o (IF r.matches = <<>> THEN << [line |-> "not_found"] >>
        ELSE format_matches(r.matches, 1))

RECURSIVE format_results(_, _)
format_results(results, k) ==
    IF k > Len(results) THEN <<>>
    ELSE format_result(results[k]) \o format_results(results, k + 1)

RECURSIVE total_matches(_, _)
total_matches(results, k) ==
    IF k > Len(results) THEN 0
    ELSE results[k].count + total_matches(results, k + 1)

\* analyzer.py _format_search_results.  The report is the sequence of the
\* strings appended to `output` (joined by newlines in the source); each is
\* a record naming the string's template and holding what is formatted in.
_format_search_results(results) ==
    << [line |-> "banner"], [line |-> "title"], [line |-> "banner"] >>
    \o format_results(results, 1)
    \o << [line |-> "banner"],
          [line |-> "total", keywords |-> Len(results),
           matches |-> total_matches(results, 1)],
          [line |-> "banner"] >>

\* search_keywords without its guard for an input that parses to nothing.
search_keywords_unguarded(srt_content, keywords, context_lines) ==
    _format_search_results(search_results(parse(srt_content), keywords, context_lines))

\* analyzer.py search_keywords
search_keywords(srt_content, keywords, context_lines) ==
    LET e == parse(srt_content)
    IN  IF e = <<>> THEN Sentinel
        ELSE _format_search_results(search_results(e, keywords, context_lines))

----------------------------------------------------------------------------
(* SubtitleAnalyzer: time segments                                         *)

\* The default segment_duration, in seconds.
DefaultSegmentDuration == 300

\* Python's a // b for b # 0: the quotient rounded down.
FloorDiv(a, b) == IF b > 0 THEN a \div b ELSE (0 - a) \div (0 - b)

\* The dict of a closed bucket with the first of its texts left out.
closed_segment_without_first(current_segment, end_time) ==
    [start_time |-> current_segment.start_time,
     start_seconds |-> current_segment.start_seconds,
     text |-> Join(Tail(current_segment.texts), <<" ">>),
     end_time |-> end_time]

\* The dict appended for a bucket that is closed.
closed_segment(current_segment, end_time) ==
    [start_time |-> current_segment.start_time,
     start_seconds |-> current_segment.start_seconds,
     text |-> Join(current_segment.texts, <<" ">>),
     end_time |-> end_time]

\* The end time of a bucket closed inside the loop, the duration forgotten.
bucket_end_time_without_duration(current_segment, segment_duration) ==
    _seconds_to_time(FloatOfInt(current_segment.start_seconds))

\* The end time of a bucket closed inside the loop: the bucket's start plus
\* the duration, as a timecode.
bucket_end_time(current_segment, segment_duration) ==
    _seconds_to_time(FloatOfInt(current_segment.start_seconds + segment_duration))

\* The end time of the bucket closed after the loop: entries[-1].end_time.
last_end_time(e) == e[Len(e)].end_time

\* The loop of get_summary_segments from entry k on, then the closing of the
\* last bucket.  segment_duration and start_seconds of a segment are ints,
\* as in the source.
RECURSIVE segments_loop(_, _, _, _, _)
segments_loop(e, k, segment_duration, current_segment, segments) ==
    IF k > Len(e)
    THEN IF current_segment.texts # <<>>
         THEN Append(segments, closed_segment(current_segment, last_end_time(e)))
         ELSE segments
    ELSE LET segment_start ==
                 FloorDiv(Trunc(e[k].start_seconds), segment_duration) * segment_duration
             differs == segment_start # current_segment.start_seconds
             closed ==
                 IF differs /\ current_segment.texts # <<>>
                 THEN Append(segments,
                             closed_segment(current_segment,
                                 bucket_end_time(current_segment, segment_duration)))
                 ELSE segments
             opened ==
                 IF differs
                 THEN [start_time |-> _seconds_to_time(FloatOfInt(segment_start)),
                       start_seconds |-> segment_start,
                       texts |-> <<>>]
                 ELSE current_segment
         IN  segments_loop(e, k + 1, segment_duration,
                           [opened EXCEPT !.texts = Append(@, e[k].text)],
                           closed)

\* analyzer.py get_summary_segments: the list returned, or the exception
\* the integer division raises.
get_summary_segments(srt_content, segment_duration) ==
    LET e == parse(srt_content)
    IN  IF e = <<>> THEN [kind |-> "ok", value |-> <<>>]
        ELSE IF segment_duration = 0 THEN [kind |-> "raise", exc |-> "ZeroDivisionError"]
        ELSE [kind |-> "ok",
              value |-> segments_loop(e, 1, segment_duration,
                                      [start_time |-> e[1].start_time,
                                       start_seconds |-> 0,
                                       texts |-> <<>>],
                                      <<>>)]

----------------------------------------------------------------------------
(* SubtitleAnalyzer: chapters                                              *)

\* The default threshold, 30.0
DefaultThreshold == FloatOfInt(30)

\* The number of characters of a chapter's first line that are kept.
FirstLineLength == 100

\* The first line kept whole.
first_line_untruncated(text) == text

\* text[:FirstLineLength]
first_line(text) == SubSeq(text, 1, Minimum(FirstLineLength, Len(text)))

\* The dict appended for a chapter.
chapter(chapter_start, last) ==
    [start_time |-> chapter_start.start_time,
     end_time |-> last.end_time,
     first_line |-> first_line(chapter_start.text)]

\* The comparison with the threshold itself taken as a split.
is_split_at_threshold(gap, threshold) == ~FloatLess(gap, threshold)

\* Whether a gap starts a new chapter: gap > threshold
is_split(gap, threshold) == FloatLess(threshold, gap)

\* The loop of extract_chapters from position i (from 1, as in the source's
\* range(1, len(entries))) on, then the last chapter.
RECURSIVE chapters_loop(_, _, _, _, _)
chapters_loop(e, i, threshold, chapter_start, chapters) ==
    IF i >= Len(e)
    THEN Append(chapters, chapter(chapter_start, e[Len(e)]))
    ELSE LET prev_end == _time_to_seconds(e[i].end_time)
             curr_start == e[i + 1].start_seconds
             gap == FloatSub(curr_start, prev_end)
         IN  IF is_split(gap, threshold)
             THEN chapters_loop(e, i + 1, threshold, e[i + 1],
                                Append(chapters, chapter(chapter_start, e[i])))
             ELSE chapters_loop(e, i + 1, threshold, chapter_start, chapters)

\* analyzer.py extract_chapters (threshold a float)
extract_chapters(srt_content, threshold) ==
    LET e == parse(srt_content)
    IN  IF Len(e) < 2 THEN <<>>
        ELSE chapters_loop(e, 1, threshold, e[1], <<>>)

----------------------------------------------------------------------------
(* The inputs of the model                                                 *)

\* The most blocks (SRT) or cues (VTT) of an input file.
MaxBlocks == 3

\* The largest context_lines a search is called with.
MaxContextLines == 2

\* The text lines of the input files.
Line_HELLO == <<"H", "e", "l", "l", "o">>

Line_HI_THERE == <<"<", "b", ">", "H", "i", "<", "/", "b", ">", " ", "t", "h", "e", "r", "e">>

Line_AB == <<"a", "B">>

Line_B == <<"b">>

Line_BAD_TIMECODE == <<"b", "a", "d", "-", "t", "i", "m", "e", "c", "o", "d", "e">>

Line_TAG_ONLY == <<"<", "i", ">">>

Line_ALIGN == <<" ", "a", "l", "i", "g", "n", ":", "s", "t", "a", "r", "t">>

Arrow == <<" ", "-", "-", ">", " ">>

\* A timecode line as subtitle_extractor.py _transcript_to_srt writes it.
SrtTimeLine(a, b) == _seconds_to_srt_time(a) \o Arrow \o _seconds_to_srt_time(b)

\* A timecode line with period separators, as VTT files have them.
VttTimeLine(a, b) == _seconds_to_time(a) \o Arrow \o _seconds_to_time(b)

\* The timecode a file writes for a whole number of milliseconds.
Timecode(ms) ==
    FormatInt(ms \div 3600000, 2) \o <<":">> \o FormatInt((ms % 3600000) \div 60000, 2)
    \o <<":">> \o FormatInt((ms % 60000) \div 1000, 2) \o <<".">> \o FormatInt(ms % 1000, 3)

\* A text of 101 characters: 100 times "x", then "y".
LongText == [i \in 1..101 |-> IF i <= 100 THEN "x" ELSE "y"]

\* The SRT blocks input files are made of: well-formed ones (numbered and
\* not, with comma and period separators, with markup, with a signed
\* number) and the three kinds of malformed block.
SrtBlocks == <<
    << <<"1">>, SrtTimeLine(Milliseconds(0), Milliseconds(4000)), Line_HELLO >>,
    << <<"2">>, SrtTimeLine(Milliseconds(100000), Milliseconds(104000)), Line_HI_THERE >>,
    << VttTimeLine(Milliseconds(350000), Milliseconds(352500)), Line_AB, Line_B >>,
    << <<"1">>, Line_BAD_TIMECODE, Line_HELLO >>,
    << Line_HELLO >>,
    << <<"3">>, SrtTimeLine(Milliseconds(44000), Milliseconds(46000)), Line_TAG_ONLY >>,
    << <<"-", "1">>, SrtTimeLine(Milliseconds(44000), Milliseconds(46100)), LongText >>
>>

\* The VTT cues input files are made of: with markup, with cue settings
\* after the timecodes and several text lines, and with no text left.  From
\* the end of the first to the start of the last there are 30 seconds by
\* the timecodes, and more than 30.0 by the floats the program makes of
\* them.
VttCues == <<
    << Timecode(1000) \o Arrow \o Timecode(2002), Line_HI_THERE >>,
    << VttTimeLine(Milliseconds(100000), Milliseconds(104000)) \o Line_ALIGN, Line_AB, Line_TAG_ONLY, Line_B >>,
    << VttTimeLine(Milliseconds(350000), Milliseconds(352000)), Line_TAG_ONLY >>,
    << Timecode(32002) \o Arrow \o Timecode(36500), Line_HELLO >>
>>

\* The lines of the chosen blocks, a blank line after each.
RECURSIVE BlocksOf(_, _)
BlocksOf(catalog, picks) ==
    IF picks = <<>> THEN <<>>
    ELSE catalog[Head(picks)] \o << <<>> >> \o BlocksOf(catalog, Tail(picks))

\* The file of those lines and the header lines before them, each line
\* ended by a newline: split at "\n", the text ends with one empty line.
FileOf(header, catalog, picks) == header \o BlocksOf(catalog, picks) \o << <<>> >>

\* The keywords searched for: letters in either case, the empty keyword and
\* a character that a regular expression would read as a wildcard.
KeywordLists ==
    { <<>>, << <<"h">> >>, << <<"B">>, <<"h">> >>, << <<"h">>, <<"h">> >>,
      << <<>> >>, << <<".">>, <<"x", "Y">> >> }

\* The context_lines of a search: the negative one is caller misuse.
ContextLines == (0 - 1)..MaxContextLines

\* The segment_duration of a call, in seconds: the default, a shorter one,
\* and the two kinds of caller misuse.
SegmentDurations == {DefaultSegmentDuration, 60, 0, 0 - 300}

\* The threshold of a call: the default and 40.0
Thresholds == {DefaultThreshold, FloatOfInt(40)}

Picks(n, k) == UNION {[1..m -> 1..k] : m \in 0..n}

SrtFiles == {FileOf(<<>>, SrtBlocks, p) : p \in Picks(MaxBlocks, Len(SrtBlocks))}

VttFiles == {FileOf(<<Line_WEBVTT, <<>> >>, VttCues, p) : p \in Picks(MaxBlocks, Len(VttCues))}

Files == SrtFiles \cup VttFiles

----------------------------------------------------------------------------
(* The calls                                                               *)

Ok(v) == [kind |-> "ok", value |-> v]

Raise(e) == [kind |-> "raise", exc |-> e]

Init ==
    /\ content \in Files
    /\ pc = "ready"
    /\ op = "none"
    /\ args = <<>>
    /\ entries = <<>>
    /\ result = [kind |-> "none"]
    /\ calls = <<>>
    /\ extracted = [kind |-> "none"]

\* analyzer.parse(content)
Parse ==
    /\ pc = "ready"
    /\ pc' = "done"
    /\ op' = "parse"
    /\ args' = <<>>
    /\ entries' = parse(content)
    /\ result' = Ok(parse(content))
    /\ UNCHANGED <<content, calls, extracted>>

\* analyzer.search_keywords(content, keywords, context_lines)
SearchKeywords ==
    /\ pc = "ready"
    /\ \E keywords \in KeywordLists, context_lines \in ContextLines :
          /\ args' = [keywords |-> keywords, context_lines |-> context_lines]
          /\ result' = Ok(search_keywords(content, keywords, context_lines))
    /\ pc' = "done"
    /\ op' = "search"
    /\ entries' = parse(content)
    /\ UNCHANGED <<content, calls, extracted>>

\* analyzer.get_summary_segments(content, segment_duration)
GetSummarySegments ==
    /\ pc = "ready"
    /\ \E segment_duration \in SegmentDurations :
          /\ args' = [segment_duration |-> segment_duration]
          /\ result' = get_summary_segments(content, segment_duration)
    /\ pc' = "done"
    /\ op' = "segments"
    /\ entries' = parse(content)
    /\ UNCHANGED <<content, calls, extracted>>

\* analyzer.extract_chapters(content, threshold)
ExtractChapters ==
    /\ pc = "ready"
    /\ \E threshold \in Thresholds :
          /\ args' = [threshold |-> threshold]
          /\ result' = Ok(extract_chapters(content, threshold))
    /\ pc' = "done"
    /\ op' = "chapters"
    /\ entries' = parse(content)
    /\ UNCHANGED <<content, calls, extracted>>

Next == Parse \/ SearchKeywords \/ GetSummarySegments \/ ExtractChapters

Spec == Init /\ [][Next]_vars

----------------------------------------------------------------------------
(* What the claims speak of                                                *)

\* The concatenation of a sequence of sequences.
RECURSIVE Concat(_)
Concat(ss) == IF ss = <<>> THEN <<>> ELSE Head(ss) \o Concat(Tail(ss))

\* A call of `name` has returned.
Called(name) == pc = "done" /\ op = name

\* The results list of the search that was called.
Searched == search_results(entries, args.keywords, args.context_lines)

\* All its hits, keyword after keyword.
SearchedMatches == Concat([k \in 1..Len(Searched) |-> Searched[k].matches])

\* The strings of a report that come from one template.
IsContextLine(l) == l.line = "context"

IsHitLine(l) == l.line = "hit"

IsTextLine(l) == l.line = "matched_text"

IsTotalLine(l) == l.line = "total"

\* The rendering of entry j (from 0) in a context block, after the marker.
AfterMarker(j) ==
    <<" ", "[">> \o entries[j + 1].start_time \o <<"]", " ">> \o entries[j + 1].text

MatchMarker == <<">", ">", ">">>

\* The text holds the keyword as a literal substring, case ignored.
ContainsIgnoringCase(text, keyword) ==
    \E p \in 0..(Len(text) - Len(keyword)) :
        [k \in 1..Len(keyword) |-> Fold(text[p + k])]
            = [k \in 1..Len(keyword) |-> Fold(keyword[k])]

\* The entries that hold the keyword, in entry order.
EntriesHolding(keyword) ==
    LET Holds(e) == ContainsIgnoringCase(e.text, keyword) IN SelectSeq(entries, Holds)

\* The positions of a report's keyword lines, in order.
KeywordLinePositions(report) ==
    LET IsAt(i) == report[i].line = "keyword"
    IN  SelectSeq([i \in 1..Len(report) |-> i], IsAt)

\* The strings of the k-th section of a report: from its keyword line up to
\* the next keyword line, or up to the three strings of the footer.
Section(report, k) ==
    LET at == KeywordLinePositions(report)
    IN  SubSeq(report, at[k],
               IF k < Len(at) THEN at[k + 1] - 1 ELSE Len(report) - 3)

RECURSIVE Sum(_)
Sum(ns) == IF ns = <<>> THEN 0 ELSE Head(ns) + Sum(Tail(ns))

----------------------------------------------------------------------------
(* Claims                                                                  *)

\* C1: in search_keywords with context_lines >= 0, the context window of
\* every hit at position i is [max(0, i - context_lines),
\* min(len, i + context_lines + 1)): it lies inside 0..len-1, it contains i,
\* the rendered block shows the entries of the window in order and marks
\* exactly entry i, with context_lines = 0 the block is the matched entry
\* alone, and the report prints these blocks.
C1_ContextWindow ==
    (Called("search") /\ entries # <<>> /\ args.context_lines >= 0) =>
        /\ \A h \in 1..Len(SearchedMatches) :
             LET m == SearchedMatches[h]
                 c == args.context_lines
             IN  /\ m.start_idx = Max(0, m.i - c)
                 /\ m.end_idx = Minimum(Len(entries), m.i + c + 1)
                 /\ 0 <= m.start_idx /\ m.start_idx <= m.i
                 /\ m.i < m.end_idx /\ m.end_idx <= Len(entries)
                 /\ m.text = entries[m.i + 1].text
                 /\ Len(m.context) = m.end_idx - m.start_idx
                 /\ \A k \in 1..Len(m.context) :
                      LET j == m.start_idx + k - 1
                      IN  /\ (SubSeq(m.context[k], 1, 3) = MatchMarker) <=> (j = m.i)
                          /\ SubSeq(m.context[k], 4, Len(m.context[k])) = AfterMarker(j)
                 /\ (c = 0 => m.context = <<MatchMarker \o AfterMarker(m.i)>>)
        /\ [k \in 1..Len(SelectSeq(result.value, IsContextLine)) |->
               SelectSeq(result.value, IsContextLine)[k].text]
             = Concat([h \in 1..Len(SearchedMatches) |-> SearchedMatches[h].context])

\* A search with a hit at the last of three entries and context_lines = 2:
\* the window is cut at the end of the entries and reaches their start.
C1_Witness ==
    /\ Called("search") /\ Len(entries) = 3 /\ args.context_lines = 2
    /\ \E h \in 1..Len(SearchedMatches) :
         /\ SearchedMatches[h].i = 2
         /\ SearchedMatches[h].start_idx = 0
         /\ SearchedMatches[h].end_idx = 3
         /\ Len(SearchedMatches[h].context) = 3

\* C2: on entries that are not empty, the report of search_keywords has one
\* section per keyword, in the order given (duplicates too); the hits of a
\* section are exactly the entries whose text holds the keyword as a literal
\* substring, case ignored, in entry order, numbered from 1; the section's
\* count is their number; the footer gives the number of keywords and the
\* sum of the counts.
C2_SearchReport ==
    (Called("search") /\ entries # <<>>) =>
        LET report == result.value
            keywords == args.keywords
            at == KeywordLinePositions(report)
            totals == SelectSeq(report, IsTotalLine)
        IN  /\ Len(at) = Len(keywords)
            /\ \A k \in 1..Len(keywords) :
                 LET expected == EntriesHolding(keywords[k])
                     section == Section(report, k)
                     hits == SelectSeq(section, IsHitLine)
                     texts == SelectSeq(section, IsTextLine)
                 IN  /\ report[at[k]].keyword = keywords[k]
                     /\ report[at[k]].count = Len(expected)
                     /\ Len(hits) = Len(expected) /\ Len(texts) = Len(expected)
                     /\ \A n \in 1..Len(expected) :
                          /\ hits[n].n = n
                          /\ hits[n].timestamp = expected[n].start_time
                          /\ hits[n].seconds = FormatSeconds(expected[n].start_seconds)
                          /\ texts[n].text = expected[n].text
            /\ Len(totals) = 1
            /\ report[Len(report) - 1] = totals[1]
            /\ totals[1].keywords = Len(keywords)
            /\ totals[1].matches =
                 Sum([k \in 1..Len(keywords) |-> Len(EntriesHolding(keywords[k]))])

\* A search for "B" and then "h" in three entries, the first keyword found
\* in fewer entries than the second, upper case against lower case.
C2_Witness ==
    /\ Called("search") /\ Len(entries) = 3
    /\ args.keywords = << <<"B">>, <<"h">> >>
    /\ Len(EntriesHolding(<<"B">>)) = 1
    /\ Len(EntriesHolding(<<"h">>)) = 2
    /\ result.value[Len(result.value) - 1].matches = 3

\* C3: on an input that parses to no entry, whatever the other arguments,
\* search_keywords returns the sentinel string, get_summary_segments the
\* empty list and extract_chapters the empty list; none raises.
C3_EmptyParse ==
    (pc = "done" /\ parse(content) = <<>>) =>
        /\ result.kind = "ok"
        /\ op = "search" => result.value = Sentinel
        /\ op = "segments" => result.value = <<>>
        /\ op = "chapters" => result.value = <<>>

\* get_summary_segments called with segment_duration = 0 on a file that
\* holds blocks, all of them malformed.
C3_Witness ==
    /\ Called("segments") /\ args.segment_duration = 0
    /\ Len(SplitBlocks(content)) >= 2 /\ entries = <<>>
    /\ result = [kind |-> "ok", value |-> <<>>]

\* C4: caller misuse fails with an InvalidArgument error: search_keywords
\* with a negative context_lines and get_summary_segments with
\* segment_duration <= 0 raise InvalidArgument instead of returning a result
\* or failing otherwise.  (Stated for inputs that parse to an entry; what
\* happens on the others is C3.)
C4_MisuseIsInvalidArgument ==
    /\ (Called("search") /\ entries # <<>> /\ args.context_lines < 0)
         => result = [kind |-> "raise", exc |-> "InvalidArgument"]
    /\ (Called("segments") /\ entries # <<>> /\ args.segment_duration <= 0)
         => result = [kind |-> "raise", exc |-> "InvalidArgument"]

\* The start of each entry, in whole seconds.
StartsInSeconds == [k \in 1..Len(entries) |-> Trunc(entries[k].start_seconds)]

\* C5: on entries that are not empty and with segment_duration > 0, every
\* segment get_summary_segments returns but the last ends at the timecode of
\* its start_seconds + segment_duration, and the last ends at the last
\* entry's own end time; entries starting at 0 s, 100 s and 350 s with
\* segment_duration = 300 give exactly 2 segments, the first ending at
\* 00:05:00.000, the second at the last entry's end time.
C5_SegmentEndTimes ==
    (Called("segments") /\ entries # <<>> /\ args.segment_duration > 0) =>
        LET segs == result.value
            d == args.segment_duration
        IN  /\ result.kind = "ok"
            /\ Len(segs) >= 1
            /\ \A k \in 1..(Len(segs) - 1) :
                 segs[k].end_time = _seconds_to_time(FloatOfInt(segs[k].start_seconds + d))
            /\ segs[Len(segs)].end_time = entries[Len(entries)].end_time
            /\ (StartsInSeconds = <<0, 100, 350>> /\ d = 300) =>
                 /\ Len(segs) = 2
                 /\ segs[1].end_time
                      = <<"0", "0", ":", "0", "5", ":", "0", "0", ".", "0", "0", "0">>
                 /\ segs[2].end_time = entries[3].end_time

\* The segments of entries at 0 s, 100 s and 350 s, 300 seconds each.
C5_Witness ==
    /\ Called("segments") /\ args.segment_duration = 300
    /\ StartsInSeconds = <<0, 100, 350>>
    /\ Len(result.value) = 2
    /\ result.value[1].start_seconds = 0 /\ result.value[2].start_seconds = 300
    /\ result.value[2].end_time # _seconds_to_time(FloatOfInt(600))

\* C6: with segment_duration > 0 the segments get_summary_segments returns
\* are fixed-width windows that do not overlap: every start_seconds is a
\* multiple of segment_duration, and no two segments of a result have the
\* same start_seconds.
C6_DistinctAlignedWindows ==
    (Called("segments") /\ args.segment_duration > 0) =>
        LET segs == result.value
        IN  /\ \A k \in 1..Len(segs) : segs[k].start_seconds % args.segment_duration = 0
            /\ \A j, k \in 1..Len(segs) :
                 j # k => segs[j].start_seconds # segs[k].start_seconds

\* The gap before entry i (from 2): the float
\* entries[i].start_seconds - _time_to_seconds(entries[i - 1].end_time).
GapBefore(i) ==
    FloatSub(entries[i].start_seconds, _time_to_seconds(entries[i - 1].end_time))

\* No gap between consecutive entries exceeds the threshold of the call.
NoGapExceeds == \A i \in 2..Len(entries) : ~FloatLess(args.threshold, GapBefore(i))

\* The one chapter that spans all entries.
SpansAllEntries(chapters) ==
    /\ Len(chapters) = 1
    /\ chapters[1].start_time = entries[1].start_time
    /\ chapters[1].end_time = entries[Len(entries)].end_time

\* C7 as claimed: on an input that parses to at least one entry, with no gap
\* that exceeds the threshold, extract_chapters returns exactly one chapter,
\* from the first entry's start time to the last entry's end time.
C7_OneChapterFromOneEntryOn ==
    (Called("chapters") /\ Len(entries) >= 1 /\ NoGapExceeds) =>
        SpansAllEntries(result.value)

\* C7, amended: on an input that parses to at least two entries, with no gap
\* that exceeds the threshold, extract_chapters returns exactly one chapter,
\* from the first entry's start time to the last entry's end time; on an
\* input that parses to exactly one entry it returns no chapter.
C7_OneChapterFromTwoEntriesOn ==
    /\ (Called("chapters") /\ Len(entries) >= 2 /\ NoGapExceeds) =>
         SpansAllEntries(result.value)
    /\ (Called("chapters") /\ Len(entries) = 1) => result.value = <<>>

\* Chapters of three entries, one of the gaps as long as the threshold.
C7_Witness ==
    /\ Called("chapters") /\ Len(entries) = 3 /\ NoGapExceeds
    /\ \E i \in 2..3 : GapBefore(i) = args.threshold
    /\ Len(result.value) = 1

\* The positions (from 2) where a gap exceeds the threshold of the call.
Cuts == {i \in 2..Len(entries) : FloatLess(args.threshold, GapBefore(i))}

\* The position of the first entry of the k-th run that these cuts make.
RunFirst(k) ==
    CHOOSE x \in Cuts \cup {1} : Cardinality({y \in Cuts \cup {1} : y < x}) = k - 1

\* The position of its last entry.
RunLast(k) == IF k = Cardinality(Cuts) + 1 THEN Len(entries) ELSE RunFirst(k + 1) - 1

\* C8: on at least 2 entries extract_chapters returns exactly the maximal
\* runs of consecutive entries cut where the gap is strictly greater than
\* the threshold (a gap equal to it does not cut): 1 + the number of cuts
\* chapters, which tile the entries; a chapter starts at its first entry's
\* start time, ends at its last entry's end time, and its first line is the
\* first 100 characters of its first entry's text.  One gap of 40 s with the
\* threshold 30.0 gives exactly 2 chapters, split at that gap.
C8_ChaptersAreRuns ==
    (Called("chapters") /\ Len(entries) >= 2) =>
        LET chapters == result.value
        IN  /\ Len(chapters) = 1 + Cardinality(Cuts)
            /\ \A k \in 1..Len(chapters) :
                 LET text == entries[RunFirst(k)].text
                 IN  /\ chapters[k].start_time = entries[RunFirst(k)].start_time
                     /\ chapters[k].end_time = entries[RunLast(k)].end_time
                     /\ chapters[k].first_line
                          = [c \in 1..Minimum(100, Len(text)) |-> text[c]]
            /\ \A i \in 2..Len(entries) :
                 (/\ args.threshold = FloatOfInt(30)
                  /\ GapBefore(i) = FloatOfInt(40)
                  /\ \A j \in 2..Len(entries) :
                       j # i => ~FloatLess(FloatOfInt(30), GapBefore(j)))
                 => /\ Len(chapters) = 2
                    /\ chapters[1].end_time = entries[i - 1].end_time
                    /\ chapters[2].start_time = entries[i].start_time

\* Chapters of three entries with the threshold 30.0 and one gap, of 40 s;
\* the second chapter opens with a text of more than 100 characters.
C8_Witness ==
    /\ Called("chapters") /\ Len(entries) = 3 /\ args.threshold = FloatOfInt(30)
    /\ Cuts = {2} /\ GapBefore(2) = FloatOfInt(40)
    /\ Len(entries[2].text) > 100
    /\ Len(result.value) = 2
    /\ Len(result.value[2].first_line) = 100

\* The file of some blocks, a blank line after each.
FileOfBlocks(blocks) ==
    Concat([k \in 1..Len(blocks) |-> blocks[k] \o << <<>> >>]) \o << <<>> >>

\* A block that has fewer than 2 lines, or whose timecode line does not
\* match the pattern, or whose text is empty once the tags are stripped.
Malformed(block) ==
    LET lines == StripLines(block)
        t == IF IsPyInt(lines[1]) THEN 2 ELSE 1
    IN  \/ Len(lines) < 2
        \/ ~TimeLineMatch(lines[t], {",", "."})
        \/ IsBlank(StripTags(Join(SubSeq(lines, t + 1, Len(lines)), <<" ">>)))

WellFormed(block) == ~Malformed(block)

\* The start time, end time and text of each entry.
Stamps(es) == [k \in 1..Len(es) |-> <<es[k].start_time, es[k].end_time, es[k].text>>]

\* C9: parse does not raise; in an SRT input a malformed block is dropped
\* and the other blocks are parsed as they would be without it: the entries
\* have the start times, end times and texts, in source order, that the
\* well-formed blocks yield as a file of their own and that each yields
\* alone; a block with the timecode line "bad-timecode" alone yields no
\* entry.
C9_MalformedBlocksDropped ==
    (Called("parse") /\ _detect_format(content) = "srt") =>
        LET blocks == SplitBlocks(content)
            good == SelectSeq(blocks, WellFormed)
        IN  /\ result.kind = "ok"
            /\ Len(result.value) = Len(good)
            /\ \A k \in 1..Len(blocks) :
                 Malformed(blocks[k]) => parse(FileOfBlocks(<<blocks[k]>>)) = <<>>
            /\ Stamps(result.value) = Stamps(parse(FileOfBlocks(good)))
            /\ Stamps(result.value)
                 = Concat([k \in 1..Len(good) |-> Stamps(parse(FileOfBlocks(<<good[k]>>)))])
            /\ blocks = << << <<"1">>, Line_BAD_TIMECODE, Line_HELLO >> >>
                 => result.value = <<>>

\* A parse of three blocks, the middle one malformed, that yields two
\* entries.
C9_Witness ==
    /\ Called("parse") /\ _detect_format(content) = "srt"
    /\ Len(SplitBlocks(content)) = 3
    /\ WellFormed(SplitBlocks(content)[1])
    /\ Malformed(SplitBlocks(content)[2])
    /\ WellFormed(SplitBlocks(content)[3])
    /\ Len(result.value) = 2

\* C10: every entry parse returns, from an SRT or a VTT input, has a
\* positive index, and the indices strictly increase along the sequence.
C10_IndicesIncrease ==
    Called("parse") =>
        /\ \A k \in 1..Len(result.value) : result.value[k].index >= 1
        /\ \A j, k \in 1..Len(result.value) :
             j < k => result.value[j].index < result.value[k].index

----------------------------------------------------------------------------
(* Parsing alone: files with whitespace around and inside the markup       *)

Line_HELLO_TAG == <<"H", "e", "l", "l", "o", " ", "<", "i", ">">>

Line_TAG_SPACE == <<"<", "i", ">", " ", "<", "/", "i", ">">>

Line_INDENTED_AB == <<" ", "a", "B">>

\* SRT blocks whose text keeps whitespace once the tags are stripped: at its
\* end, at its start, and nothing but whitespace; the number of the last is
\* followed by a no-break space.
MarkupSrtBlocks == <<
    << <<"1">>, SrtTimeLine(Milliseconds(0), Milliseconds(4000)), Line_HELLO >>,
    << <<"2">>, SrtTimeLine(Milliseconds(100000), Milliseconds(104000)), Line_HELLO_TAG >>,
    << VttTimeLine(Milliseconds(350000), Milliseconds(352500)), Line_AB, Line_B >>,
    << <<"3">>, SrtTimeLine(Milliseconds(44000), Milliseconds(46000)), Line_TAG_SPACE >>,
    << <<"4", " ">>, SrtTimeLine(Milliseconds(200000), Milliseconds(202000)), Line_INDENTED_AB, Line_B >>
>>

\* VTT cues: with markup, with cue settings and several text lines, with
\* only whitespace left of the text, with an indented timecode line, with
\* no text left, a text line that follows no timecode line, and two
\* timecode lines in a row.
MarkupVttCues == <<
    << VttTimeLine(Milliseconds(1000), Milliseconds(2000)), Line_HI_THERE >>,
    << VttTimeLine(Milliseconds(100000), Milliseconds(104000)) \o Line_ALIGN, Line_AB, Line_TAG_ONLY, Line_B >>,
    << VttTimeLine(Milliseconds(350000), Milliseconds(352000)), Line_TAG_SPACE >>,
    << <<" ">> \o VttTimeLine(Milliseconds(34000), Milliseconds(36500)), Line_HELLO >>,
    << VttTimeLine(Milliseconds(200000), Milliseconds(202000)), Line_TAG_ONLY >>,
    << Line_HELLO >>,
    << VttTimeLine(Milliseconds(3000), Milliseconds(4000)), VttTimeLine(Milliseconds(5000), Milliseconds(6000)), Line_B >>
>>

ParseFiles ==
    {FileOf(<<>>, MarkupSrtBlocks, p) : p \in Picks(MaxBlocks, Len(MarkupSrtBlocks))}
    \cup {FileOf(<<Line_WEBVTT, <<>> >>, MarkupVttCues, p) :
             p \in Picks(MaxBlocks, Len(MarkupVttCues))}

ParseInit ==
    /\ content \in ParseFiles
    /\ pc = "ready"
    /\ op = "none"
    /\ args = <<>>
    /\ entries = <<>>
    /\ result = [kind |-> "none"]
    /\ calls = <<>>
    /\ extracted = [kind |-> "none"]

\* One call of analyzer.parse on one of those files.
ParseSpec == ParseInit /\ [][Parse]_vars

\* C11: no entry parse returns, from an SRT or a VTT input, has a text that
\* is empty or only whitespace once the markup tags are stripped.
C11_NoBlankText ==
    Called("parse") =>
        \A k \in 1..Len(result.value) : ~IsBlank(StripTags(result.value[k].text))

\* The entries written out as SRT blocks: the index, "start --> end", the
\* text and an empty line, each line ended by a newline.
IndexLine(index) ==
    IF index < 0 THEN <<"-">> \o NatDigits(0 - index) ELSE NatDigits(index)

WriteSrt(es) ==
    FileOfBlocks([k \in 1..Len(es) |->
        << IndexLine(es[k].index),
           es[k].start_time \o Arrow \o es[k].end_time,
           es[k].text >>])

\* C12: the entries parse returns, written out as SRT blocks and parsed
\* again, are as many entries with the same texts, start times and end
\* times in the same order.
C12_RoundTrip ==
    Called("parse") =>
        Stamps(parse(WriteSrt(result.value))) = Stamps(result.value)

\* The bucket of entry i in the call's segment_duration: the start of its
\* window, in whole seconds.
BucketOf(i) ==
    (StartsInSeconds[i] \div args.segment_duration) * args.segment_duration

\* The positions where a run of entries of one bucket begins.
BucketRuns == {i \in 1..Len(entries) : i = 1 \/ BucketOf(i) # BucketOf(i - 1)}

\* The position of the first entry of the k-th such run, and of its last.
BucketRunFirst(k) ==
    CHOOSE x \in BucketRuns : Cardinality({y \in BucketRuns : y < x}) = k - 1

BucketRunLast(k) ==
    IF k = Cardinality(BucketRuns) THEN Len(entries) ELSE BucketRunFirst(k + 1) - 1

\* The texts of entries a..b.
TextsOf(a, b) == [i \in 1..(b - a + 1) |-> entries[a + i - 1].text]

\* C13: on entries that are not empty and with segment_duration > 0,
\* get_summary_segments loses and duplicates nothing: the segments are the
\* runs of consecutive entries of one bucket, one segment for each run and
\* none without an entry; a segment's text is the texts of its run joined
\* by spaces, so the segments' texts in output order are the entries' texts
\* in source order, each once; and a segment's start_seconds is
\* floor(start_seconds / segment_duration) * segment_duration of each of its
\* entries.
C13_SegmentsKeepEveryText ==
    (Called("segments") /\ entries # <<>> /\ args.segment_duration > 0) =>
        LET segs == result.value
        IN  /\ result.kind = "ok"
            /\ Len(segs) = Cardinality(BucketRuns)
            /\ \A k \in 1..Len(segs) :
                 /\ BucketRunFirst(k) <= BucketRunLast(k)
                 /\ segs[k].text
                      = Join(TextsOf(BucketRunFirst(k), BucketRunLast(k)), <<" ">>)
                 /\ \A i \in BucketRunFirst(k)..BucketRunLast(k) :
                      segs[k].start_seconds = BucketOf(i)
            /\ Join([k \in 1..Len(segs) |-> segs[k].text], <<" ">>)
                 = Join(TextsOf(1, Len(entries)), <<" ">>)

\* Segments of three entries in two runs, the first run of two entries, the
\* first entry not in the bucket that starts at 0.
C13_Witness ==
    /\ Called("segments") /\ args.segment_duration = 60
    /\ Len(entries) = 3
    /\ BucketRuns = {1, 3}
    /\ BucketOf(1) # 0
    /\ Len(result.value) = 2
    /\ result.value[1].text = Join(TextsOf(1, 2), <<" ">>)

\* C14: with segment_duration > 0 every segment get_summary_segments
\* returns, the first one too, opens at its bucket boundary: its start_time
\* is the timecode of its start_seconds.
C14_SegmentsOpenAtBoundary ==
    (Called("segments") /\ args.segment_duration > 0) =>
        \A k \in 1..Len(result.value) :
            _time_to_seconds(result.value[k].start_time)
                = FloatOfInt(result.value[k].start_seconds)

\* The lines of the input that match the timecode pattern once trimmed.
CueLines == {i \in 1..Len(content) : TimeLineMatch(Strip(content[i]), {"."})}

\* Where the text of the cue at line i stops: the next blank line or the
\* next timecode line, or the end of the input.
CueTextEnd(i) ==
    Min({j \in (i + 1)..Len(content) : IsBlank(content[j]) \/ j \in CueLines}
        \cup {Len(content) + 1})

NonEmpty(s) == s # <<>>

\* The text lines of the cue at line i that are not empty once trimmed and
\* stripped of tags.
CueTexts(i) ==
    SelectSeq([l \in 1..(CueTextEnd(i) - i - 1) |-> StripTags(Strip(content[i + l]))],
              NonEmpty)

\* The timecode lines that have such a text line, and the k-th of them.
CuesWithText == {i \in CueLines : CueTexts(i) # <<>>}

CueWithText(k) ==
    CHOOSE x \in CuesWithText : Cardinality({y \in CuesWithText : y < x}) = k - 1

\* C15: from a VTT input parse returns exactly one entry for each line that
\* matches the timecode pattern once trimmed and has, before the next blank
\* line or timecode line, a text line that is not empty after tag
\* stripping; in source order; with the two timecodes of that line; the
\* text being those text lines joined by single spaces; lines after the
\* blank line that ends a cue are in no entry; the k-th entry has index k.
C15_OneEntryPerCue ==
    (Called("parse") /\ _detect_format(content) = "vtt") =>
        result.value =
            [k \in 1..Cardinality(CuesWithText) |->
                SubtitleEntry(k,
                              TimeLineStart(Strip(content[CueWithText(k)])),
                              TimeLineEnd(Strip(content[CueWithText(k)])),
                              Join(CueTexts(CueWithText(k)), <<" ">>))]

----------------------------------------------------------------------------
(* SubtitleExtractor: platforms, transcripts and plain text                *)

\* The position after `lit` where s holds it at position p, compared up to
\* case (the patterns are matched with re.IGNORECASE); 0 where it does not.
MatchAt(s, p, lit) ==
    IF /\ p + Len(lit) - 1 <= Len(s)
       /\ \A k \in 1..Len(lit) : Fold(s[p + k - 1]) = Fold(lit[k])
    THEN p + Len(lit) ELSE 0

\* An optional literal: the position after it, or p where s does not hold it.
SkipOptional(s, p, lit) == IF MatchAt(s, p, lit) # 0 THEN MatchAt(s, p, lit) ELSE p

\* (?:https?://)?(?:www\.)? at the start of the URL: where the host begins.
HostStart(url) ==
    LET scheme == IF MatchAt(url, 1, <<"h", "t", "t", "p", "s", ":", "/", "/">>) # 0
                  THEN MatchAt(url, 1, <<"h", "t", "t", "p", "s", ":", "/", "/">>)
                  ELSE SkipOptional(url, 1, <<"h", "t", "t", "p", ":", "/", "/">>)
    IN  SkipOptional(url, scheme, <<"w", "w", "w", ".">>)

\* \w of a str pattern: the digits, the underscore and the letters and
\* numbers of Unicode.
IsWord(c) ==
    \/ IsDigit(c)
    \/ c = "_"
    \/ Fold(c) \in {AllLowerCase[k] : k \in 1..Len(AllLowerCase)}
    \/ c \in WideCaseless

\* The position after the longest run of \w characters, and of "-" where
\* `hyphen`, from position p of s (p itself when there is none).
RECURSIVE WordRunEnd(_, _, _)
WordRunEnd(s, p, hyphen) ==
    IF p <= Len(s) /\ (IsWord(s[p]) \/ (hyphen /\ s[p] = "-"))
    THEN WordRunEnd(s, p + 1, hyphen) ELSE p

\* The position after the longest run of digits from position p of s.
RECURSIVE DigitRunEnd(_, _)
DigitRunEnd(s, p) ==
    IF p <= Len(s) /\ IsDigit(s[p]) THEN DigitRunEnd(s, p + 1) ELSE p

\* PLATFORM_PATTERNS["youtube"] without the common head and the id group.
YoutubePaths ==
    << <<"y", "o", "u", "t", "u", "b", "e", ".", "c", "o", "m", "/", "w", "a", "t", "c", "h", "?", "v", "=">>, <<"y", "o", "u", "t", "u", ".", "b", "e", "/">>, <<"y", "o", "u", "t", "u", "b", "e", ".", "c", "o", "m", "/", "s", "h", "o", "r", "t", "s", "/">> >>

\* Where the id group ([\w-]+) of the k-th YouTube pattern starts in the
\* URL, 0 if the pattern does not match.
YoutubeIdStart(url, k) ==
    LET p == MatchAt(url, HostStart(url), YoutubePaths[k])
    IN  IF p # 0 /\ WordRunEnd(url, p, TRUE) > p THEN p ELSE 0

\* The two patterns of PLATFORM_PATTERNS["bilibili"].
BilibiliMatch(url) ==
    LET v == MatchAt(url, HostStart(url), <<"b", "i", "l", "i", "b", "i", "l", "i", ".", "c", "o", "m", "/", "v", "i", "d", "e", "o", "/">>)
        b == MatchAt(url, HostStart(url), <<"b", "2", "3", ".", "t", "v", "/">>)
        av == IF v = 0 THEN 0 ELSE MatchAt(url, v, <<"a", "v">>)
        bv == IF v = 0 THEN 0 ELSE MatchAt(url, v, <<"B", "V">>)
    IN  \/ av # 0 /\ DigitRunEnd(url, av) > av
        \/ bv # 0 /\ WordRunEnd(url, bv, FALSE) > bv
        \/ b # 0 /\ WordRunEnd(url, b, FALSE) > b

\* subtitle_extractor.py detect_platform; "none" stands for None.
detect_platform(url) ==
    IF \E k \in 1..Len(YoutubePaths) : YoutubeIdStart(url, k) # 0 THEN "youtube"
    ELSE IF BilibiliMatch(url) THEN "bilibili"
    ELSE "none"

\* subtitle_extractor.py _extract_video_id: group(1) of the first YouTube
\* pattern that matches; "none" stands for None.
_extract_video_id(url) ==
    IF \A k \in 1..Len(YoutubePaths) : YoutubeIdStart(url, k) = 0 THEN "none"
    ELSE LET k == Min({j \in 1..Len(YoutubePaths) : YoutubeIdStart(url, j) # 0})
             p == YoutubeIdStart(url, k)
         IN  SubSeq(url, p, WordRunEnd(url, p, TRUE) - 1)

\* LANG_MAP.get(lang, [lang])
LANG_MAP(lang) ==
    IF lang = "zh" THEN <<"zh-Hans", "zh-CN", "zh-TW", "zh-Hant", "zh">>
    ELSE IF lang = "zh-Hans" THEN <<"zh-Hans", "zh-CN", "zh">>
    ELSE IF lang = "zh-Hant" THEN <<"zh-Hant", "zh-TW">>
    ELSE IF lang = "en" THEN <<"en", "en-US", "en-GB">>
    ELSE <<lang>>

\* text.split("\n"): the lines of a text.
RECURSIVE LinesOf(_)
LinesOf(text) ==
    LET breaks == {i \in 1..Len(text) : text[i] = "\n"}
    IN  IF breaks = {} THEN <<text>>
        ELSE <<SubSeq(text, 1, Min(breaks) - 1)>>
             \o LinesOf(SubSeq(text, Min(breaks) + 1, Len(text)))

\* "\n".join(pieces) as the lines of that text: the lines of each piece in
\* turn, a piece that holds line feeds making several; of no piece at all,
\* the text is empty, which is one empty line.
LinesOfJoin(pieces) ==
    IF pieces = <<>> THEN << <<>> >>
    ELSE Concat([i \in 1..Len(pieces) |-> LinesOf(pieces[i])])

\* The four lines _transcript_to_srt appends for the i-th snippet (start
\* and duration are floats).
transcript_block(i, snippet) ==
    << NatDigits(i),
       SrtTimeLine(snippet.start, FloatAdd(snippet.start, snippet.duration)),
       snippet.text,
       <<>> >>

\* subtitle_extractor.py _transcript_to_srt
_transcript_to_srt(transcript) ==
    LinesOfJoin(Concat([i \in 1..Len(transcript) |-> transcript_block(i, transcript[i])]))

\* subtitle_extractor.py _transcript_to_text
_transcript_to_text(transcript) ==
    LinesOfJoin([i \in 1..Len(transcript) |-> transcript[i].text])

\* re.match(r"^\d{2}:\d{2}:\d{2}", line)
ClockPrefixMatch(line) ==
    /\ Len(line) >= 8
    /\ IsDigit(line[1]) /\ IsDigit(line[2]) /\ line[3] = ":"
    /\ IsDigit(line[4]) /\ IsDigit(line[5]) /\ line[6] = ":"
    /\ IsDigit(line[7]) /\ IsDigit(line[8])

\* The lines _vtt_to_text skips: empty ones, numbers, timecodes, headers.
vtt_text_skipped(line) ==
    \/ line = <<>>
    \/ AllDigits(line)
    \/ ClockPrefixMatch(line)
    \/ StartsWith(line, Line_WEBVTT)
    \/ StartsWith(line, <<"K", "i", "n", "d", ":">>)
    \/ StartsWith(line, <<"L", "a", "n", "g", "u", "a", "g", "e", ":">>)

RECURSIVE vtt_text_loop(_, _)
vtt_text_loop(lines, k) ==
    IF k > Len(lines) THEN <<>>
    ELSE LET line == Strip(lines[k])
             clean_line == StripTags(line)
         IN  (IF ~vtt_text_skipped(line) /\ clean_line # <<>>
              THEN <<clean_line>> ELSE <<>>)
             \o vtt_text_loop(lines, k + 1)

\* subtitle_extractor.py _vtt_to_text
_vtt_to_text(vtt_content) == LinesOfJoin(vtt_text_loop(vtt_content, 1))

----------------------------------------------------------------------------
(* The server: call_tool, and the extraction it awaits                     *)

\* The texts of the source, which are Chinese, in ASCII.
\* "错误: " (server.py:216)
ErrorPrefix == "error: "

\* "未知工具: " (server.py:213)
UnknownToolPrefix == "unknown tool: "

\* "不支持的视频平台，URL: " (subtitle_extractor.py:279)
Msg_UNSUPPORTED == "unsupported video platform, URL: "

\* "无法提取字幕: " (subtitle_extractor.py:285 and 187)
Msg_CANNOT_EXTRACT == "cannot extract subtitles: "

\* "未知错误" (subtitle_extractor.py:186)
Msg_UNKNOWN_ERROR == "unknown error"

\* "未知" (subtitle_extractor.py:325, 328, 329)
Msg_UNKNOWN == "unknown"

\* "该视频没有可用字幕" (subtitle_extractor.py:138)
Msg_NO_SUBTITLES == "the video has no subtitles available"

\* "无法获取字幕列表: " (subtitle_extractor.py:360)
Msg_CANNOT_LIST == "cannot get the subtitle list: "

\* "获取视频信息失败: " (subtitle_extractor.py:320)
Msg_INFO_FAILED == "getting the video information failed: "

\* An exception: its class and str() of it, as the pieces it is made of.
Exception(type, msg) == [type |-> type, msg |-> msg]

ValueError(msg) == Exception("ValueError", msg)

\* arguments[key] of a key the map lacks; str(KeyError('url')) is "'url'".
KeyError(key) == Exception("KeyError", <<"'", key, "'">>)

\* BaseException and the classes of Python 3.11 that derive from it and
\* not from Exception; every other class of exceptions derives from
\* Exception.
NotExceptionClasses ==
    {"BaseException", "CancelledError", "KeyboardInterrupt", "SystemExit",
     "GeneratorExit", "BaseExceptionGroup"}

\* TextContent(type="text", text=prefix + body): the text is kept as the
\* literal it starts with ("" when there is none) and what follows.
TextContent(prefix, body) ==
    [type |-> "text", text |-> [prefix |-> prefix, body |-> body]]

\* server.py:186, 198, 204, 210: the result of a tool.
text_reply(text) == << TextContent("", text) >>

\* server.py:213
unknown_tool_reply(name) == << TextContent(UnknownToolPrefix, name) >>

\* server.py:216
error_reply(e) == << TextContent(ErrorPrefix, e.msg) >>

\* call_tool's handler that lets everything but a ValueError through.
call_tool_except_value_error(e) ==
    IF e.type = "ValueError" THEN Ok(error_reply(e)) ELSE Raise(e)

\* server.py:215-216, `except Exception as e`: what call_tool does with an
\* exception raised inside its try block.
call_tool_except(e) ==
    IF e.type \notin NotExceptionClasses THEN Ok(error_reply(e)) ELSE Raise(e)

\* The values of JSON as json.loads makes them: an array (a list of
\* values), an object (a dict: its keys in the order it keeps them, and the
\* value of each), a string, a number (an int or a float), a boolean and
\* null (None).
Array(items) == [type |-> "array", items |-> items]

Object(keys, value) == [type |-> "object", keys |-> keys, value |-> value]

String(chars) == [type |-> "string", chars |-> chars]

Number(type, value) == [type |-> type, value |-> value]

Boolean(value) == [type |-> "bool", value |-> value]

Null == [type |-> "null"]

\* type(value).__name__
TypeName(value) ==
    CASE value.type = "array" -> "list"
      [] value.type = "object" -> "dict"
      [] value.type = "string" -> "str"
      [] value.type = "null" -> "NoneType"
      [] value.type \in {"int", "float", "bool"} -> value.type

\* A text that encodes no JSON value, with the exception json.loads raises
\* on it.
NoJson(e) == [type |-> "none", error |-> e]

\* json.loads(text), a text being kept as the value it encodes.
json_loads(text) == IF text.type = "none" THEN Raise(text.error) ELSE Ok(text)

\* The bytes a process prints or a file holds: those that encode a text in
\* UTF-8, kept as that text, and those that do not, with the
\* UnicodeDecodeError that decoding them raises.
Utf8(text) == [utf8 |-> TRUE, text |-> text]

NotUtf8(e) == [utf8 |-> FALSE, error |-> e]

\* bytes.decode()
decode(bytes) == IF bytes.utf8 THEN Ok(bytes.text) ELSE Raise(bytes.error)

\* The lines of a text read with universal newlines, given its lines as the
\* line feeds part them: a carriage return ends a line too, and the one
\* before a line feed ends that line with it.
universal_newlines(lines) ==
    Concat([k \in 1..Len(lines) |->
        LET line == IF k < Len(lines) /\ lines[k] # <<>>
                       /\ lines[k][Len(lines[k])] = "\r"
                    THEN SubSeq(lines[k], 1, Len(lines[k]) - 1) ELSE lines[k]
        IN  LinesOf([i \in 1..Len(line) |->
                        IF line[i] = "\r" THEN "\n" ELSE line[i]])])

\* Path.read_text(encoding="utf-8") of a file that holds the bytes: the
\* text they decode to, its newlines translated.
read_text(bytes) ==
    IF bytes.utf8 THEN Ok(universal_newlines(bytes.text)) ELSE Raise(bytes.error)

\* bool(bytes): there is a byte.
HasBytes(bytes) == ~(bytes.utf8 /\ bytes.text = "")

\* The tools call_tool knows.
KnownTools ==
    {"extract_subtitles", "search_timestamp", "get_video_info", "list_available_subtitles"}

\* The first of the arguments a tool reads with arguments[key] that the map
\* lacks; "none" if it has them all.
missing_argument(name, arguments) ==
    IF "url" \notin DOMAIN arguments THEN "url"
    ELSE IF name = "search_timestamp" /\ "keywords" \notin DOMAIN arguments THEN "keywords"
    ELSE "none"

\* arguments.get(key, default)
Get(arguments, key, default) ==
    IF key \in DOMAIN arguments THEN arguments[key] ELSE default

\* The lang and the format call_tool hands to extractor.extract: those of
\* the arguments for extract_subtitles, the default lang and "srt" for
\* search_timestamp.
extract_lang ==
    IF op = "extract_subtitles" THEN Get(args, "lang", "zh") ELSE "zh"

extract_format ==
    IF op = "extract_subtitles" THEN Get(args, "format", "srt") ELSE "srt"

\* extract's handlers with the first clause left out: nothing is reported,
\* and every failure that derives from Exception goes to yt-dlp.
reports_never(e) == FALSE

\* subtitle_extractor.py:284: the failures of the transcript path that
\* extract reports.
reports(e) == e.type \in {"TranscriptsDisabled", "VideoUnavailable"}

\* subtitle_extractor.py:286-288, `except (RequestBlocked, Exception)`: the
\* failures of the transcript path that extract hands to yt-dlp, which are
\* the other exceptions that derive from Exception (RequestBlocked does).
falls_back(e) == ~reports(e) /\ e.type \notin NotExceptionClasses

\* subtitle_extractor.py:285: the error extract reports then.
reported(e) == ValueError(<<Msg_CANNOT_EXTRACT, e.msg>>)

\* subtitle_extractor.py:146-148: the text of a transcript in the format.
formatted(transcript, format) ==
    IF format = "text" THEN _transcript_to_text(transcript)
    ELSE _transcript_to_srt(transcript)

\* subtitle_extractor.py:191-193: the text of a downloaded file.
downloaded(subtitle_content, format) ==
    IF format = "text" THEN _vtt_to_text(subtitle_content) ELSE subtitle_content

\* subtitle_extractor.py:183 (and 228): the subtitle files of the temporary
\* directory, those of VTT where there is one, those of SRT otherwise.
subtitle_files(directory) ==
    IF \E f \in directory : f.suffix = "vtt"
    THEN {f \in directory : f.suffix = "vtt"}
    ELSE {f \in directory : f.suffix = "srt"}

\* subtitle_extractor.py:182-193 (and 227-238): what a download comes to
\* once the process is through, given the directory it left, what it wrote
\* to stderr and the file that glob lists first.
download_result(directory, stderr, first, format) ==
    IF subtitle_files(directory) = {}
    THEN IF ~HasBytes(stderr)
         THEN Raise(ValueError(<<Msg_CANNOT_EXTRACT, Msg_UNKNOWN_ERROR>>))
         ELSE IF decode(stderr).kind = "raise" THEN decode(stderr)
         ELSE Raise(ValueError(<<Msg_CANNOT_EXTRACT, decode(stderr).value>>))
    ELSE IF read_text(first.content).kind = "raise" THEN read_text(first.content)
    ELSE Ok(downloaded(read_text(first.content).value, format))

\* dict.get(key, default)
DictGet(data, key, default) ==
    IF key \in DOMAIN data THEN data[key] ELSE default

\* The number of characters get_video_info keeps of the description.
DescriptionLimit == 500

\* subtitle_extractor.py:331, data.get("description", "")[:500]: the slice
\* of a string or of a list is its first 500 items; a dict takes no slice
\* for a key and the other values take no subscript.
description_slice(description) ==
    CASE description.type = "string" ->
           Ok(SubSeq(description.chars, 1, Min({DescriptionLimit, Len(description.chars)})))
      [] description.type = "array" ->
           Ok(Array(SubSeq(description.items, 1,
                           Min({DescriptionLimit, Len(description.items)}))))
      [] description.type = "object" ->
           Raise(Exception("TypeError", <<"unhashable type: 'slice'">>))
      [] OTHER ->
           Raise(Exception("TypeError",
                           <<"'", TypeName(description), "' object is not subscriptable">>))

\* subtitle_extractor.py:324-334: the dict get_video_info makes of the JSON
\* yt-dlp printed, for the platform found at line 296 ("none" stands for
\* None).  A JSON value that is no object has no get, which the first
\* data.get meets.
video_info(data, url, platform) ==
    IF data.type # "object"
    THEN Raise(Exception("AttributeError",
                         <<"'", TypeName(data), "' object has no attribute 'get'">>))
    ELSE IF description_slice(DictGet(data.value, "description", String(<<>>))).kind = "raise"
    THEN description_slice(DictGet(data.value, "description", String(<<>>)))
    ELSE Ok([title |-> DictGet(data.value, "title", Msg_UNKNOWN),
             duration |-> DictGet(data.value, "duration", 0),
             duration_string |-> DictGet(data.value, "duration_string", "00:00"),
             uploader |-> DictGet(data.value, "uploader", Msg_UNKNOWN),
             upload_date |-> DictGet(data.value, "upload_date", Msg_UNKNOWN),
             view_count |-> DictGet(data.value, "view_count", 0),
             description |->
                 description_slice(DictGet(data.value, "description", String(<<>>))).value,
             platform |-> platform,
             webpage_url |-> DictGet(data.value, "webpage_url", url)])

\* subtitle_extractor.py:319-334: what get_video_info comes to once the
\* process is through, given its return code and the bytes it printed.
video_info_result(returncode, stdout, stderr, url, platform) ==
    IF returncode # 0
    THEN IF decode(stderr).kind = "raise" THEN decode(stderr)
         ELSE Raise(ValueError(<<Msg_INFO_FAILED, decode(stderr).value>>))
    ELSE IF decode(stdout).kind = "raise" THEN decode(stdout)
    ELSE IF json_loads(decode(stdout).value).kind = "raise"
    THEN json_loads(decode(stdout).value)
    ELSE video_info(json_loads(decode(stdout).value).value, url, platform)

\* analyzer.py:181, `for keyword in keywords`: what the loop runs over, for
\* keywords that are a list (its items), a string (its characters, each a
\* string) or a dict (its keys).
iterated(keywords) ==
    CASE keywords.type = "array" -> keywords.items
      [] keywords.type = "string" ->
           [k \in 1..Len(keywords.chars) |-> String(<<keywords.chars[k]>>)]
      [] keywords.type = "object" ->
           [k \in 1..Len(keywords.keys) |-> String(keywords.keys[k])]

\* analyzer.search_keywords as call_tool calls it, with the keywords as the
\* arguments have them (any value of JSON), once there are entries:
\* iterating over keywords that are no list, string or dict raises a
\* TypeError (analyzer.py:181), and so does re.escape of the first keyword
\* that is no string (analyzer.py:183), before anything is returned.
search_call(subtitles, keywords, context_lines) ==
    IF parse(subtitles) = <<>> THEN Ok(Sentinel)
    ELSE IF keywords.type \notin {"array", "string", "object"}
    THEN Raise(Exception("TypeError",
                         <<"'", TypeName(keywords), "' object is not iterable">>))
    ELSE LET items == iterated(keywords)
             others == {k \in 1..Len(items) : items[k].type # "string"}
         IN  IF others # {}
             THEN Raise(Exception("TypeError",
                           <<"decoding to str: need a bytes-like object, ",
                             TypeName(items[Min(others)]), " found">>))
             ELSE Ok(search_keywords(subtitles,
                                     [k \in 1..Len(items) |-> items[k].chars],
                                     context_lines))

\* One invocation of a collaborator, as the log of the call keeps it.
Invocation(name, arguments, returned) ==
    [name |-> name, args |-> arguments, returned |-> returned]

\* An invocation that has not returned yet.
Pending == [kind |-> "pending"]

\* The log once its last invocation has returned or raised.
Returned(log, returned) == [log EXCEPT ![Len(log)].returned = returned]

----------------------------------------------------------------------------
(* The calls of the server                                                 *)

\* The URLs of the calls: the three YouTube forms (the id with a hyphen, no
\* scheme, upper case and a letter beyond ASCII in the id, a query after the
\* id), the two Bilibili forms,
\* and URLs of no supported platform: another site, a YouTube URL without
\* an id, a Bilibili URL without a number.
Urls ==
    { <<"h", "t", "t", "p", "s", ":", "/", "/", "w", "w", "w", ".", "y", "o", "u", "t", "u", "b", "e", ".", "c", "o", "m", "/", "w", "a", "t", "c", "h", "?", "v", "=", "a", "-", "1">>,
      <<"Y", "O", "U", "T", "U", ".", "B", "E", "/", "x", "_", "É">>,
      <<"h", "t", "t", "p", ":", "/", "/", "y", "o", "u", "t", "u", "b", "e", ".", "c", "o", "m", "/", "s", "h", "o", "r", "t", "s", "/", "9", "?", "t", "=", "1">>,
      <<"h", "t", "t", "p", "s", ":", "/", "/", "w", "w", "w", ".", "b", "i", "l", "i", "b", "i", "l", "i", ".", "c", "o", "m", "/", "v", "i", "d", "e", "o", "/", "B", "V", "1", "x">>,
      <<"b", "2", "3", ".", "t", "v", "/", "a">>,
      <<"h", "t", "t", "p", "s", ":", "/", "/", "v", "i", "m", "e", "o", ".", "c", "o", "m", "/", "1">>,
      <<"h", "t", "t", "p", "s", ":", "/", "/", "w", "w", "w", ".", "y", "o", "u", "t", "u", "b", "e", ".", "c", "o", "m", "/", "w", "a", "t", "c", "h", "?", "v", "=">>,
      <<"h", "t", "t", "p", "s", ":", "/", "/", "w", "w", "w", ".", "b", "i", "l", "i", "b", "i", "l", "i", ".", "c", "o", "m", "/", "v", "i", "d", "e", "o", "/", "a", "v">> }

\* The tool names of the calls: the four tools and a name that is none.
ToolNames == KnownTools \cup {"summarize"}

\* The keywords of the calls: a list of strings, a string, null, a dict and
\* a list whose second item is a number.
KeywordValues ==
    { Array(<<String(<<"h">>)>>),
      String(<<"h", "B">>),
      Null,
      Object(<< <<"B">>, <<"h">> >>,
             [k \in {<<"B">>, <<"h">>} |-> Number("int", 1)]),
      Array(<<String(<<"B">>), Number("int", 5)>>) }

\* The argument maps of the calls: empty, with the URL alone, with a lang
\* and a format, with keywords and without the URL.
ArgumentMaps ==
    { <<>> }
    \cup { [url |-> u] : u \in Urls }
    \cup { [url |-> u, lang |-> "fr", format |-> "text"] : u \in Urls }
    \cup { [url |-> u, keywords |-> k] : u \in Urls, k \in KeywordValues }
    \cup { [url |-> u, keywords |-> Array(<<String(<<"B">>)>>), context_lines |-> 0] : u \in Urls }
    \cup { [keywords |-> Array(<<String(<<"h">>)>>)] }

\* The transcripts the transcript API serves; the text of a snippet may
\* hold line feeds.
Transcripts ==
    { << [text |-> Line_HELLO, start |-> FloatOfInt(0), duration |-> FloatOfInt(4)] >>,
      << [text |-> Line_HELLO, start |-> FloatOfInt(0), duration |-> FloatOfInt(4)],
         [text |-> Line_AB, start |-> Milliseconds(100500), duration |-> FloatOfInt(4)] >>,
      << [text |-> <<"a", "\n", "b">>, start |-> Milliseconds(4100), duration |-> FloatOfInt(1)] >> }

\* What a call of the transcript API raises: the errors of the library, an
\* error of the network, and what does not derive from Exception, the
\* CancelledError of a call that is cancelled while it awaits and a
\* BaseException.
ApiErrors ==
    { Exception(t, <<"api">>) :
        t \in {"NoTranscriptFound", "TranscriptsDisabled", "VideoUnavailable",
               "RequestBlocked", "ConnectionError", "CancelledError",
               "BaseException"} }

\* What starting yt-dlp raises, when it does; the CancelledError is that of
\* a call cancelled at this await.
StartErrors ==
    { Exception("FileNotFoundError", <<"yt-dlp">>),
      Exception("PermissionError", <<"yt-dlp">>),
      Exception("CancelledError", <<"yt-dlp">>) }

\* What decoding bytes that are no UTF-8 raises.
UnicodeDecodeError ==
    Exception("UnicodeDecodeError",
              <<"'utf-8' codec can't decode byte 0xff in position 0: invalid start byte">>)

\* A file of SRT whose lines end with a carriage return and a line feed,
\* and whose text holds a carriage return alone.
CrLfFile ==
    << <<"1", "\r">>,
       SrtTimeLine(Milliseconds(0), Milliseconds(4000)) \o <<"\r">>,
       Line_HELLO \o <<"\r">> \o Line_AB \o <<"\r">>,
       <<"\r">>,
       <<>> >>

\* The files yt-dlp may leave in the temporary directory: one of VTT, one
\* of SRT, one whose bytes are no UTF-8 and one with carriage returns.
DownloadedFiles ==
    { [suffix |-> "vtt",
       content |-> Utf8(FileOf(<<Line_WEBVTT, <<>> >>, VttCues, <<1, 4>>))],
      [suffix |-> "srt", content |-> Utf8(FileOf(<<>>, SrtBlocks, <<3>>))],
      [suffix |-> "srt", content |-> NotUtf8(UnicodeDecodeError)],
      [suffix |-> "srt", content |-> Utf8(CrLfFile)] }

\* What yt-dlp may write to stderr: nothing, a text, bytes that are no
\* UTF-8.
StderrBytes == {Utf8(""), Utf8("stderr"), NotUtf8(UnicodeDecodeError)}

\* A description longer than get_video_info keeps.
LongDescription == [i \in 1..(DescriptionLimit + 1) |-> "d"]

\* The JSON yt-dlp --dump-json may print: an object with every field, one
\* with none, one whose description is null, and values that are no object.
VideoData ==
    { Object(<<"title", "duration", "duration_string", "uploader", "upload_date",
               "view_count", "description", "webpage_url">>,
             [title |-> "title", duration |-> 61, duration_string |-> "1:01",
              uploader |-> "uploader", upload_date |-> "20240101", view_count |-> 7,
              description |-> String(LongDescription), webpage_url |-> "canonical"]),
      Object(<<>>, <<>>),
      Object(<<"title", "description">>, [title |-> "title", description |-> Null]),
      Array(<<>>),
      Null }

\* What get_video_info may find on stdout: the JSON of a video, an empty
\* output, a cut one, and bytes that are no UTF-8.
VideoOutputs ==
    { Utf8(data) : data \in VideoData }
    \cup { Utf8(NoJson(Exception("JSONDecodeError",
                <<"Expecting value: line 1 column 1 (char 0)">>))),
           Utf8(NoJson(Exception("JSONDecodeError",
                <<"Expecting property name enclosed in double quotes: line 1 column 2 (char 1)">>))),
           NotUtf8(UnicodeDecodeError) }

ServerInit ==
    /\ content = <<>>
    /\ pc = "ready"
    /\ op = "none"
    /\ args = <<>>
    /\ entries = <<>>
    /\ result = [kind |-> "none"]
    /\ calls = <<>>
    /\ extracted = [kind |-> "none"]

\* server.py call_tool up to its first await: the dispatch on the name and
\* the reading of the required arguments.
CallTool ==
    /\ pc = "ready"
    /\ \E name \in ToolNames, arguments \in ArgumentMaps :
          /\ op' = name
          /\ args' = arguments
          /\ IF name \notin KnownTools
             THEN /\ result' = Ok(unknown_tool_reply(name))
                  /\ pc' = "done"
             ELSE IF missing_argument(name, arguments) # "none"
             THEN /\ result' = call_tool_except(KeyError(missing_argument(name, arguments)))
                  /\ pc' = "done"
             ELSE /\ result' = result
                  /\ pc' = IF name = "get_video_info" THEN "video_info"
                           ELSE IF name = "list_available_subtitles" THEN "list_subtitles"
                           ELSE "extract"
    /\ UNCHANGED <<content, entries, calls, extracted>>

\* subtitle_extractor.py extract up to its first await: the platform of the
\* URL, and _extract_youtube up to the fetch.
Extract ==
    /\ pc = "extract"
    /\ IF detect_platform(args.url) = "none"
       THEN /\ extracted' = Raise(ValueError(<<Msg_UNSUPPORTED, args.url>>))
            /\ pc' = "extracted"
       ELSE /\ extracted' = extracted
            /\ pc' = IF detect_platform(args.url) = "bilibili" THEN "bilibili"
                     ELSE IF _extract_video_id(args.url) = "none" THEN "ytdlp"
                     ELSE "yt_fetch"
    /\ UNCHANGED <<content, op, args, entries, result, calls>>

\* subtitle_extractor.py:284-288: extract's handlers, for the exception e of
\* the transcript path; an exception neither handler catches is raised by
\* extract as it is.
ExtractExcept(e) ==
    IF reports(e)
    THEN pc' = "extracted" /\ extracted' = Raise(reported(e))
    ELSE IF falls_back(e)
    THEN pc' = "ytdlp" /\ extracted' = extracted
    ELSE pc' = "extracted" /\ extracted' = Raise(e)

\* subtitle_extractor.py:124-128: self._yt_api.fetch(video_id, languages)
YtFetch ==
    /\ pc = "yt_fetch"
    /\ \E returned \in {Ok(t) : t \in Transcripts} \cup {Raise(e) : e \in ApiErrors} :
          /\ calls' = Append(calls,
                 Invocation("yt_api.fetch",
                            <<_extract_video_id(args.url), LANG_MAP(extract_lang)>>,
                            returned))
          /\ IF returned.kind = "ok"
             THEN /\ extracted' = Ok(formatted(returned.value, extract_format))
                  /\ pc' = "extracted"
             ELSE IF returned.exc.type = "NoTranscriptFound"
             THEN pc' = "yt_list" /\ extracted' = extracted
             ELSE ExtractExcept(returned.exc)
    /\ UNCHANGED <<content, op, args, entries, result>>

\* subtitle_extractor.py:129-138: self._yt_api.list(video_id), in the
\* handler of NoTranscriptFound.
YtList ==
    /\ pc = "yt_list"
    /\ \E returned \in {Ok(<<>>), Ok(<<"en">>)} \cup {Raise(e) : e \in ApiErrors} :
          /\ calls' = Append(calls,
                 Invocation("yt_api.list", <<_extract_video_id(args.url)>>, returned))
          /\ IF returned.kind = "raise" THEN ExtractExcept(returned.exc)
             ELSE IF returned.value = <<>> THEN ExtractExcept(ValueError(<<Msg_NO_SUBTITLES>>))
             ELSE pc' = "yt_first" /\ extracted' = extracted
    /\ UNCHANGED <<content, op, args, entries, result>>

\* subtitle_extractor.py:140-144: available[0].fetch()
YtFirstFetch ==
    /\ pc = "yt_first"
    /\ \E returned \in {Ok(t) : t \in Transcripts} \cup {Raise(e) : e \in ApiErrors} :
          /\ calls' = Append(calls, Invocation("transcript.fetch", <<>>, returned))
          /\ IF returned.kind = "ok"
             THEN /\ extracted' = Ok(formatted(returned.value, extract_format))
                  /\ pc' = "extracted"
             ELSE ExtractExcept(returned.exc)
    /\ UNCHANGED <<content, op, args, entries, result>>

\* subtitle_extractor.py:174 (and 219): the await of
\* asyncio.create_subprocess_exec in the download `name`; the process
\* starts, or starting it raises and so does extract.
StartDownload(name, communicate) ==
    \E returned \in {Pending} \cup {Raise(e) : e \in StartErrors} :
        /\ calls' = Append(calls, Invocation(name, <<args.url, extract_lang>>, returned))
        /\ IF returned = Pending
           THEN pc' = communicate /\ extracted' = extracted
           ELSE pc' = "extracted" /\ extracted' = returned

\* subtitle_extractor.py:180-193 (and 225-238): the await of
\* process.communicate() and what follows it; what the download returns or
\* raises is what extract does.
CommunicateDownload ==
    \E directory \in SUBSET DownloadedFiles, stderr \in StderrBytes :
        \E first \in IF subtitle_files(directory) = {} THEN {Null}
                     ELSE subtitle_files(directory) :
            \E returned \in {download_result(directory, stderr, first, extract_format)} :
                /\ calls' = Returned(calls, returned)
                /\ extracted' = returned
                /\ pc' = "extracted"

\* subtitle_extractor.py:288: _extract_with_ytdlp, the fallback, up to the
\* start of the process.
YtDlp ==
    /\ pc = "ytdlp"
    /\ StartDownload("_extract_with_ytdlp", "ytdlp_communicate")
    /\ UNCHANGED <<content, op, args, entries, result>>

\* _extract_with_ytdlp from the end of the process on.
YtDlpCommunicate ==
    /\ pc = "ytdlp_communicate"
    /\ CommunicateDownload
    /\ UNCHANGED <<content, op, args, entries, result>>

\* subtitle_extractor.py:290: _extract_bilibili, up to the start of the
\* process.
Bilibili ==
    /\ pc = "bilibili"
    /\ StartDownload("_extract_bilibili", "bilibili_communicate")
    /\ UNCHANGED <<content, op, args, entries, result>>

\* _extract_bilibili from the end of the process on.
BilibiliCommunicate ==
    /\ pc = "bilibili_communicate"
    /\ CommunicateDownload
    /\ UNCHANGED <<content, op, args, entries, result>>

\* server.py:185-186: extract_subtitles once extractor.extract is through.
ExtractSubtitles ==
    /\ pc = "extracted" /\ op = "extract_subtitles"
    /\ result' = IF extracted.kind = "raise" THEN call_tool_except(extracted.exc)
                 ELSE Ok(text_reply(extracted.value))
    /\ pc' = "done"
    /\ UNCHANGED <<content, op, args, entries, calls, extracted>>

\* server.py:195-198: search_timestamp once extractor.extract is through:
\* the search in the subtitles it returned.
SearchTimestamp ==
    /\ pc = "extracted" /\ op = "search_timestamp"
    /\ IF extracted.kind = "raise"
       THEN /\ result' = call_tool_except(extracted.exc)
            /\ UNCHANGED <<content, entries, calls>>
       ELSE \E context_lines \in {Get(args, "context_lines", 2)} :
            \E returned \in {search_call(extracted.value, args.keywords, context_lines)} :
                /\ content' = extracted.value
                /\ entries' = parse(extracted.value)
                /\ calls' = Append(calls,
                       Invocation("search_keywords",
                                  <<extracted.value, args.keywords, context_lines>>,
                                  returned))
                /\ result' = IF returned.kind = "raise" THEN call_tool_except(returned.exc)
                             ELSE Ok(text_reply(returned.value))
    /\ pc' = "done"
    /\ UNCHANGED <<op, args, extracted>>

\* json.dumps(value, ensure_ascii=False, indent=2): the text that encodes
\* the value.
JsonDumps(value) == [json |-> value]

\* server.py:203 and subtitle_extractor.py:311: get_video_info up to the
\* start of the process, which may raise.
GetVideoInfo ==
    /\ pc = "video_info"
    /\ \E returned \in {Pending} \cup {Raise(e) : e \in StartErrors} :
          /\ calls' = Append(calls, Invocation("get_video_info", <<args.url>>, returned))
          /\ IF returned = Pending
             THEN pc' = "video_info_communicate" /\ result' = result
             ELSE pc' = "done" /\ result' = call_tool_except(returned.exc)
    /\ UNCHANGED <<content, op, args, entries, extracted>>

\* subtitle_extractor.py:317-334 and server.py:204: get_video_info from the
\* end of the process on, and the reply.
GetVideoInfoCommunicate ==
    /\ pc = "video_info_communicate"
    /\ \E returncode \in {0, 1}, stdout \in VideoOutputs, stderr \in StderrBytes :
          \E returned \in {video_info_result(returncode, stdout, stderr, args.url,
                                              detect_platform(args.url))} :
              /\ calls' = Returned(calls, returned)
              /\ result' = IF returned.kind = "raise" THEN call_tool_except(returned.exc)
                            ELSE Ok(text_reply(JsonDumps(returned.value)))
    /\ pc' = "done"
    /\ UNCHANGED <<content, op, args, entries, extracted>>

\* The tracks the transcript API lists for a video.
TrackLists ==
    { <<>>,
      << [language |-> "English", language_code |-> "en", is_generated |-> FALSE],
         [language |-> "Chinese", language_code |-> "zh", is_generated |-> TRUE] >> }

IsGenerated(transcript) == transcript.is_generated

IsManual(transcript) == ~transcript.is_generated

\* subtitle_extractor.py:365-368: the entry of a track.
track_entry(transcript) ==
    [code |-> transcript.language_code,
     info |-> <<transcript.language, " (", transcript.language_code, ")">>]

\* subtitle_extractor.py:362-374: the tracks by kind.
tracks_by_kind(transcript_list) ==
    LET manual == SelectSeq(transcript_list, IsManual)
        automatic == SelectSeq(transcript_list, IsGenerated)
    IN  [manual |-> [k \in 1..Len(manual) |-> track_entry(manual[k])],
         automatic |-> [k \in 1..Len(automatic) |-> track_entry(automatic[k])]]

\* subtitle_extractor.py _list_youtube_subtitles, given what
\* self._yt_api.list returned or raised: TranscriptsDisabled and
\* VideoUnavailable become a ValueError, any other exception goes through.
list_youtube_subtitles(returned) ==
    IF returned.kind = "ok" THEN Ok(tracks_by_kind(returned.value))
    ELSE IF returned.exc.type \in {"TranscriptsDisabled", "VideoUnavailable"}
    THEN Raise(ValueError(<<Msg_CANNOT_LIST, returned.exc.msg>>))
    ELSE returned

\* subtitle_extractor.py:405, 407: the lines that open a section.
Line_AVAILABLE_SUBTITLES ==
    <<"A", "v", "a", "i", "l", "a", "b", "l", "e", " ", "s", "u", "b", "t", "i", "t", "l", "e", "s">>

Line_AVAILABLE_CAPTIONS ==
    <<"A", "v", "a", "i", "l", "a", "b", "l", "e", " ", "a", "u", "t", "o", "m", "a", "t", "i", "c", " ", "c", "a", "p", "t", "i", "o", "n", "s">>

\* subtitle_extractor.py:414: the first words of the lines that are headings
\* or formats, not languages.
NotLanguages ==
    { <<"L", "a", "n", "g", "u", "a", "g", "e">>,
      <<"v", "t", "t">>,
      <<"t", "t", "m", "l">>,
      <<"s", "r", "v", "3">>,
      <<"s", "r", "v", "2">>,
      <<"s", "r", "v", "1">>,
      <<"j", "s", "o", "n", "3">> }

\* subtitle_extractor.py:411, ^(\w+(?:-\w+)?)\s+ on a stripped line: the
\* position after group 1, 0 where the pattern does not match.
LangCodeEnd(line) ==
    LET word == WordRunEnd(line, 1, FALSE)
        tail == IF word <= Len(line) /\ line[word] = "-"
                   /\ WordRunEnd(line, word + 1, FALSE) > word + 1
                THEN WordRunEnd(line, word + 1, FALSE) ELSE word
    IN  IF word > 1 /\ tail <= Len(line) /\ IsSpace(line[tail]) THEN tail ELSE 0

\* `part in text`
Contains(part, text) ==
    \E p \in 1..(Len(text) - Len(part) + 1) : SubSeq(text, p, p + Len(part) - 1) = part

\* subtitle_extractor.py:403-418: the loop over the lines of the output
\* from line i on, in the section `section` ("none" stands for None).
RECURSIVE list_loop(_, _, _, _)
list_loop(lines, i, section, subtitles) ==
    IF i > Len(lines) THEN subtitles
    ELSE IF Contains(Line_AVAILABLE_SUBTITLES, lines[i])
    THEN list_loop(lines, i + 1, "manual", subtitles)
    ELSE IF Contains(Line_AVAILABLE_CAPTIONS, lines[i])
    THEN list_loop(lines, i + 1, "automatic", subtitles)
    ELSE LET line == Strip(lines[i])
             lang_code == SubSeq(line, 1, LangCodeEnd(line) - 1)
         IN  IF /\ section # "none" /\ line # <<>>
                /\ LangCodeEnd(line) # 0 /\ lang_code \notin NotLanguages
             THEN list_loop(lines, i + 1, section,
                      [subtitles EXCEPT ![section] =
                           Append(@, [code |-> lang_code, info |-> line])])
             ELSE list_loop(lines, i + 1, section, subtitles)

\* subtitle_extractor.py:398-420: what _list_bilibili_subtitles comes to
\* once the process is through, given the bytes it printed (a text as its
\* lines).
list_bilibili_result(stdout) ==
    IF decode(stdout).kind = "raise" THEN decode(stdout)
    ELSE Ok(list_loop(decode(stdout).value, 1, "none",
                      [manual |-> <<>>, automatic |-> <<>>]))

\* What yt-dlp --list-subs may print: nothing, a table of subtitles, one of
\* captions after it, a table without its opening line, and bytes that are
\* no UTF-8.
ListOutputs ==
    { Utf8(<< <<>> >>),
      Utf8(<< <<"[", "i", "n", "f", "o", "]", " ", "A", "v", "a", "i", "l", "a", "b", "l", "e", " ", "s", "u", "b", "t", "i", "t", "l", "e", "s", " ", "f", "o", "r", " ", "B", "V", "1", "x", ":">>,
              <<"L", "a", "n", "g", "u", "a", "g", "e", " ", "F", "o", "r", "m", "a", "t", "s">>,
              <<"z", "h", "-", "H", "a", "n", "s", " ", "v", "t", "t">>,
              <<" ", "e", "n", " ", " ", "v", "t", "t", ",", " ", "s", "r", "t">>,
              <<>> >>),
      Utf8(<< <<"[", "i", "n", "f", "o", "]", " ", "A", "v", "a", "i", "l", "a", "b", "l", "e", " ", "a", "u", "t", "o", "m", "a", "t", "i", "c", " ", "c", "a", "p", "t", "i", "o", "n", "s", " ", "f", "o", "r", " ", "B", "V", "1", "x", ":">>,
              <<"L", "a", "n", "g", "u", "a", "g", "e", " ", "F", "o", "r", "m", "a", "t", "s">>,
              <<"a", "i", "-", "z", "h", " ", "s", "r", "t">>,
              <<"[", "i", "n", "f", "o", "]", " ", "A", "v", "a", "i", "l", "a", "b", "l", "e", " ", "s", "u", "b", "t", "i", "t", "l", "e", "s", " ", "f", "o", "r", " ", "B", "V", "1", "x", ":">>,
              <<"z", "h">>,
              <<"v", "t", "t", " ", "x">>,
              <<>> >>),
      Utf8(<< <<"L", "a", "n", "g", "u", "a", "g", "e", " ", "F", "o", "r", "m", "a", "t", "s">>,
              <<"z", "h", "-", "H", "a", "n", "s", " ", "v", "t", "t">> >>),
      NotUtf8(UnicodeDecodeError) }

\* server.py:209-210 and subtitle_extractor.py:344, 354-374: list_subtitles
\* for a YouTube URL, the one await of self._yt_api.list, and the reply.
ListSubtitles ==
    /\ pc = "list_subtitles"
    /\ detect_platform(args.url) = "youtube"
    /\ \E listed \in {Ok(t) : t \in TrackLists} \cup {Raise(e) : e \in ApiErrors} :
          \E returned \in {list_youtube_subtitles(listed)} :
              /\ calls' = Append(calls, Invocation("list_subtitles", <<args.url>>, returned))
              /\ result' = IF returned.kind = "raise" THEN call_tool_except(returned.exc)
                            ELSE Ok(text_reply(JsonDumps(returned.value)))
    /\ pc' = "done"
    /\ UNCHANGED <<content, op, args, entries, extracted>>

\* subtitle_extractor.py:346, 392: list_subtitles for any other URL, up to
\* the start of yt-dlp, which may raise.
ListBilibiliSubtitles ==
    /\ pc = "list_subtitles"
    /\ detect_platform(args.url) # "youtube"
    /\ \E returned \in {Pending} \cup {Raise(e) : e \in StartErrors} :
          /\ calls' = Append(calls, Invocation("list_subtitles", <<args.url>>, returned))
          /\ IF returned = Pending
             THEN pc' = "list_communicate" /\ result' = result
             ELSE pc' = "done" /\ result' = call_tool_except(returned.exc)
    /\ UNCHANGED <<content, op, args, entries, extracted>>

\* subtitle_extractor.py:398-420 and server.py:210: from the end of the
\* process on, and the reply.
ListBilibiliCommunicate ==
    /\ pc = "list_communicate"
    /\ \E stdout \in ListOutputs :
          \E returned \in {list_bilibili_result(stdout)} :
              /\ calls' = Returned(calls, returned)
              /\ result' = IF returned.kind = "raise" THEN call_tool_except(returned.exc)
                            ELSE Ok(text_reply(JsonDumps(returned.value)))
    /\ pc' = "done"
    /\ UNCHANGED <<content, op, args, entries, extracted>>

ServerNext ==
    \/ CallTool \/ Extract \/ YtFetch \/ YtList \/ YtFirstFetch
    \/ YtDlp \/ YtDlpCommunicate \/ Bilibili \/ BilibiliCommunicate
    \/ ExtractSubtitles \/ SearchTimestamp
    \/ GetVideoInfo \/ GetVideoInfoCommunicate
    \/ ListSubtitles \/ ListBilibiliSubtitles \/ ListBilibiliCommunicate

\* One call of call_tool.
ServerSpec == ServerInit /\ [][ServerNext]_vars

----------------------------------------------------------------------------
(* What the claims about the extractor and the server speak of             *)

\* extractor.extract has been called: a tool that extracts, with the
\* arguments it requires.
ExtractCalled ==
    /\ op \in {"extract_subtitles", "search_timestamp"}
    /\ missing_argument(op, args) = "none"

\* extractor.extract has returned or raised.
ExtractThrough == ExtractCalled /\ pc \in {"extracted", "done"}

IsTranscriptCall(c) == c.name \in {"yt_api.fetch", "yt_api.list", "transcript.fetch"}

IsFallbackCall(c) == c.name = "_extract_with_ytdlp"

IsFetcherCall(c) ==
    IsTranscriptCall(c) \/ IsFallbackCall(c) \/ c.name = "_extract_bilibili"

\* The invocations of the transcript API so far, and those of the fallback.
TranscriptCalls == SelectSeq(calls, IsTranscriptCall)

FallbackCalls == SelectSeq(calls, IsFallbackCall)

\* The invocation the transcript path ended with, if it has ended.
LastTranscriptCall == TranscriptCalls[Len(TranscriptCalls)]

\* The transcript path succeeded: a fetch returned a transcript.
PathSucceeded ==
    /\ TranscriptCalls # <<>>
    /\ LastTranscriptCall.name \in {"yt_api.fetch", "transcript.fetch"}
    /\ LastTranscriptCall.returned.kind = "ok"

\* It failed with TranscriptsDisabled or VideoUnavailable.
PathDisabled ==
    /\ TranscriptCalls # <<>>
    /\ LastTranscriptCall.returned.kind = "raise"
    /\ LastTranscriptCall.returned.exc.type \in {"TranscriptsDisabled", "VideoUnavailable"}

\* It failed in another way: with another exception (NoTranscriptFound of
\* the first fetch is not one: the path goes on with the list), or with no
\* transcript listed.
PathFailedOtherwise ==
    /\ TranscriptCalls # <<>>
    /\ \/ /\ LastTranscriptCall.returned.kind = "raise"
          /\ LastTranscriptCall.returned.exc.type
                \notin {"TranscriptsDisabled", "VideoUnavailable"}
          /\ ~(/\ LastTranscriptCall.name = "yt_api.fetch"
               /\ LastTranscriptCall.returned.exc.type = "NoTranscriptFound")
       \/ /\ LastTranscriptCall.name = "yt_api.list"
          /\ LastTranscriptCall.returned.kind = "ok"
          /\ LastTranscriptCall.returned.value = <<>>

\* It failed with an exception that does not derive from Exception.
PathFailedOutsideException ==
    /\ TranscriptCalls # <<>>
    /\ LastTranscriptCall.returned.kind = "raise"
    /\ LastTranscriptCall.returned.exc.type \in NotExceptionClasses

\* The order of extract, the failures after which it invokes the fallback
\* being those of `failed`.
ExtractOrder(failed) ==
    ExtractCalled =>
        /\ detect_platform(args.url) = "none" =>
             /\ \A k \in 1..Len(calls) : ~IsFetcherCall(calls[k])
             /\ ExtractThrough =>
                  extracted = Raise(ValueError(<<Msg_UNSUPPORTED, args.url>>))
        /\ detect_platform(args.url) = "youtube" =>
             /\ calls # <<>> => calls[1].name = "yt_api.fetch"
             /\ ExtractThrough => TranscriptCalls # <<>>
             /\ Len(FallbackCalls) <= 1
             /\ PathSucceeded =>
                  /\ FallbackCalls = <<>>
                  /\ ExtractThrough /\ extracted.kind = "ok"
             /\ PathDisabled =>
                  /\ FallbackCalls = <<>>
                  /\ ExtractThrough
                  /\ extracted = Raise(ValueError(<<Msg_CANNOT_EXTRACT,
                                                    LastTranscriptCall.returned.exc.msg>>))
             /\ (failed /\ ExtractThrough) =>
                  /\ Len(FallbackCalls) = 1
                  /\ extracted = FallbackCalls[1].returned
                  /\ \A j, k \in 1..Len(calls) :
                       (IsTranscriptCall(calls[j]) /\ IsFallbackCall(calls[k])) => j < k
             /\ FallbackCalls # <<>> => failed

\* C16 as it is stated: in extract, a URL of no supported platform fails
\* with an error before any fetcher is invoked; for a YouTube URL the
\* transcript API is tried first; when it fails with TranscriptsDisabled or
\* VideoUnavailable extract reports an error and the yt-dlp fallback is
\* never invoked; when it fails in any other way (no transcript listed
\* included) the fallback is invoked exactly once and extract returns or
\* raises what the fallback did; the fallback is never invoked once the
\* transcript path succeeded.
C16_FallbackAfterAnyOtherFailure == ExtractOrder(PathFailedOtherwise)

\* C16, amended: the same, the failures after which the fallback is invoked
\* exactly once being the other ones that derive from Exception (no
\* transcript listed included); when the transcript path fails with an
\* exception that does not derive from Exception, the fallback is not
\* invoked and extract raises that exception.
C16_FallbackOnlyAfterOtherFailure ==
    /\ ExtractOrder(PathFailedOtherwise /\ ~PathFailedOutsideException)
    /\ (ExtractCalled /\ detect_platform(args.url) = "youtube"
          /\ PathFailedOutsideException) =>
         /\ FallbackCalls = <<>>
         /\ ExtractThrough
         /\ extracted = LastTranscriptCall.returned

\* An extraction in which the video listed no transcript, the fallback was
\* invoked and raised, and extract raised the same.
C16_Witness ==
    /\ ExtractThrough
    /\ Len(calls) >= 3
    /\ calls[1].name = "yt_api.fetch" /\ calls[2].name = "yt_api.list"
    /\ calls[2].returned = Ok(<<>>)
    /\ calls[3].name = "_extract_with_ytdlp"
    /\ calls[3].returned.kind = "raise"
    /\ extracted = calls[3].returned

\* The invocations of the analyzer so far.
IsAnalyzerCall(c) == c.name = "search_keywords"

AnalyzerCalls == SelectSeq(calls, IsAnalyzerCall)

\* call_tool has returned or raised.
CallToolThrough == pc = "done" /\ op # "none"

\* The exceptions raised inside call_tool's try block in this call: the
\* KeyError of a required argument the map lacks, what extractor.extract
\* raised, what the extractor's or the analyzer's last invocation raised.
RaisedInCall ==
    (IF op \in KnownTools /\ missing_argument(op, args) # "none"
     THEN {KeyError(missing_argument(op, args))} ELSE {})
    \cup (IF extracted.kind = "raise" THEN {extracted.exc} ELSE {})
    \cup (IF calls # <<>> /\ calls[Len(calls)].returned.kind = "raise"
             /\ calls[Len(calls)].name \in {"search_keywords", "get_video_info", "list_subtitles"}
          THEN {calls[Len(calls)].returned.exc} ELSE {})

\* What C17 says of an unknown tool name and of the keyword search: a tool
\* name call_tool does not know comes back as one text content, the
\* unknown-tool prefix and the name, with neither the extractor nor the
\* analyzer invoked; and search_timestamp runs the keyword search only once
\* extract has returned the subtitles, and on them.
UnknownToolAndSearchOrder ==
    /\ (op # "none" /\ op \notin KnownTools) =>
         /\ pc = "done"
         /\ result = Ok(<< TextContent(UnknownToolPrefix, op) >>)
         /\ calls = <<>>
         /\ extracted.kind = "none"
    /\ AnalyzerCalls # <<>> =>
         /\ op = "search_timestamp"
         /\ extracted.kind = "ok"
         /\ Len(AnalyzerCalls) = 1
         /\ IsAnalyzerCall(calls[Len(calls)])
         /\ calls[Len(calls)].args[1] = extracted.value

\* C17 as it is stated: call_tool never raises; whatever the tool name and
\* the arguments, an exception raised while extracting or analysing (the
\* KeyError of a missing required argument included) comes back as one text
\* content that starts with the error prefix; and what it says of an unknown
\* tool name and of the keyword search.
C17_NeverPropagates ==
    /\ result.kind # "raise"
    /\ CallToolThrough =>
         /\ result.kind = "ok"
         /\ Len(result.value) = 1
         /\ result.value[1].type = "text"
         /\ \A e \in RaisedInCall :
              /\ result.value = error_reply(e)
              /\ result.value[1].text.prefix = ErrorPrefix
    /\ UnknownToolAndSearchOrder

\* C17, amended: whatever the tool name and the arguments, an exception
\* deriving from Exception that is raised while extracting or analysing
\* (the KeyError of a missing required argument included) comes back as one
\* text content that starts with the error prefix, and call_tool raises
\* only an exception that does not derive from Exception, which it raises
\* as it was raised; what call_tool returns is one text content; and what
\* the claim says of an unknown tool name and of the keyword search.
C17_ErrorsComeBackAsText ==
    /\ result.kind = "raise" => CallToolThrough
    /\ CallToolThrough =>
         /\ result.kind \in {"ok", "raise"}
         /\ result.kind = "ok" =>
              /\ Len(result.value) = 1
              /\ result.value[1].type = "text"
         /\ result.kind = "raise" =>
              /\ result.exc \in RaisedInCall
              /\ result.exc.type \in NotExceptionClasses
         /\ \A e \in RaisedInCall :
              IF e.type \in NotExceptionClasses THEN result = Raise(e)
              ELSE /\ result = Ok(error_reply(e))
                   /\ result.value[1].text.prefix = ErrorPrefix
    /\ UnknownToolAndSearchOrder

\* A search_timestamp call whose extraction returned subtitles and whose
\* keyword search then raised: the reply is the error text.
C17_Witness ==
    /\ CallToolThrough
    /\ op = "search_timestamp"
    /\ extracted.kind = "ok"
    /\ AnalyzerCalls # <<>>
    /\ AnalyzerCalls[1].returned.kind = "raise"
    /\ result = Ok(error_reply(AnalyzerCalls[1].returned.exc))

====
